---- MODULE Spec2Model ----
(***************************************************************************)
(* State-machine model of server.py: the SQLite history store              *)
(* (add_to_history, get_conversation_history, clear_conversation) and the  *)
(* request handlers built on it (/voice-chat, /text-chat, /voice-agent,    *)
(* /clear-conversation).                                                   *)
(*                                                                         *)
(* Two specifications share the variables and the store actions:           *)
(*   SpecStore  the three store functions called directly, from a store    *)
(*              that already holds turns, so that the bound of 20 turns    *)
(*              is crossed;                                                *)
(*   Spec       the HTTP handlers, from an empty store.                    *)
(***************************************************************************)
EXTENDS Integers, Sequences, FiniteSets, TLC

\* server.py:89
MAX_HISTORY_MESSAGES == 20

\* ---- bounds of the model ------------------------------------------------
\* seconds the clock may advance during a run
MaxTicks == 1
\* store-function calls started during a run of SpecStore
MaxCalls == 2

\* HTTP requests started during a run of Spec
MaxRequests == 2

\* concurrent tasks of the event loop (request handlers or direct callers)
Req == {1, 2}
\* session identifiers a caller may supply
Sessions == {"s1", "s2"}
\* pairs the store may hold for session s1 when a run of SpecStore begins
PrefillPairs == {0, 10}

VARIABLES
    store,      \* committed rows of table conversations (a set of records)
    nextId,     \* next AUTOINCREMENT id
    tx,         \* the open write transaction: its owner, pending inserts and deletes
    clock,      \* CURRENT_TIMESTAMP, in seconds
    reqs,       \* per task: its position and locals
    started,    \* calls / requests started so far
    appended,   \* per session: pairs whose insert committed since the last clear
    dirty,      \* per session: an insert committed and no prune committed since
    cleared,    \* per session: clear_conversation calls completed since a row
                \* of the session was last committed
    config      \* which provider clients the process has (fixed at import)

vars == <<store, nextId, tx, clock, reqs, started, appended, dirty, cleared, config>>

\* ---- helpers --------------------------------------------------------------
Min(a, b) == IF a <= b THEN a ELSE b

SetOfSeq(q) == {q[i] : i \in 1..Len(q)}

RECURSIVE Perms(_)
\* every enumeration of the finite set G
Perms(G) ==
    IF G = {} THEN {<<>>}
    ELSE UNION {{<<x>> \o p : p \in Perms(G \ {x})} : x \in G}

Reverse(q) == [i \in 1..Len(q) |-> q[Len(q) + 1 - i]]

\* ---- table conversations ---------------------------------------------------
\* one row: id INTEGER PRIMARY KEY AUTOINCREMENT, session_id, role, content,
\* created_at TIMESTAMP DEFAULT CURRENT_TIMESTAMP (resolution: one second)
Row(id, sid, role, content, t) ==
    [id |-> id, session_id |-> sid, role |-> role, content |-> content,
     created_at |-> t]

\* WHERE session_id = ?
RowsOf(S, sid) == {r \in S : r.session_id = sid}

RECURSIVE OrderByCreatedAtAsc(_)
\* ORDER BY created_at ASC: every sequence of the rows of R in which
\* created_at never decreases.  The statement names no other sort key, so
\* rows with the same created_at may come in any order.
OrderByCreatedAtAsc(R) ==
    IF R = {} THEN {<<>>}
    ELSE LET m == CHOOSE t \in {r.created_at : r \in R} :
                      \A r \in R : t <= r.created_at
             G == {r \in R : r.created_at = m}
         IN  {p \o q : p \in Perms(G), q \in OrderByCreatedAtAsc(R \ G)}

\* ORDER BY created_at DESC
OrderByCreatedAtDesc(R) == {Reverse(q) : q \in OrderByCreatedAtAsc(R)}

\* LIMIT n
Limit(q, n) == SubSeq(q, 1, Min(n, Len(q)))

\* SELECT role, content
RoleContent(q) == [i \in 1..Len(q) |-> [role |-> q[i].role, content |-> q[i].content]]

NoTx == [owner |-> 0, ins |-> <<>>, del |-> {}]

\* str(uuid.uuid4()) for the n-th task: an identifier no caller supplied
UUID(n) == "uuid" \o ToString(n)

AllSessions == Sessions \cup {UUID(n) : n \in 1..(MaxCalls + MaxRequests)}

\* mutant of PruneKeepIds: the subquery sorts ascending, keeping the oldest
PruneKeepIdsAsc(S, sid, n) ==
    {{x.id : x \in SetOfSeq(Limit(q, n))} : q \in OrderByCreatedAtAsc(RowsOf(S, sid))}

\* a prune that makes room for the pair just inserted only: it keeps every
\* row but the two oldest when the session holds more than n
PruneKeepIdsAllButTwo(S, sid, n) ==
    IF Cardinality(RowsOf(S, sid)) <= n
    THEN {{x.id : x \in RowsOf(S, sid)}}
    ELSE {{x.id : x \in RowsOf(S, sid)} \ {x.id : x \in SetOfSeq(Limit(q, 2))} :
             q \in OrderByCreatedAtAsc(RowsOf(S, sid))}

\* SELECT id FROM conversations WHERE session_id = ?
\*   ORDER BY created_at DESC LIMIT ?        (the prune's subquery)
\* the sets of ids the subquery may return
PruneKeepIds(S, sid, n) ==
    {{x.id : x \in SetOfSeq(Limit(q, n))} : q \in OrderByCreatedAtDesc(RowsOf(S, sid))}

\* a read without LIMIT: every row of the session
SelectHistoryUnbounded(S, sid, n) ==
    OrderByCreatedAtAsc(RowsOf(S, sid))

\* SELECT ... WHERE session_id = ? ORDER BY created_at ASC LIMIT ?
\* the row sequences the read may return
SelectHistory(S, sid, n) ==
    {Limit(q, n) : q \in OrderByCreatedAtAsc(RowsOf(S, sid))}

\* ---- tasks -----------------------------------------------------------------
\* OPENAI_API_KEY set, openai_client and elevenlabs_client created
\* (server.py:28-48)
FullConfig == [openai_key |-> TRUE, openai_client |-> TRUE, elevenlabs_client |-> TRUE]

\* the direct callers of SpecStore
StoreCallers == {"add_to_history", "get_conversation_history", "clear_conversation"}

\* no answer of the agent lookup yet
NoAgentData == [status |-> "none", body |-> [none |-> ""]]

IdleReq ==
    [flow |-> "none", pc |-> "idle",
     session_in |-> "", session_id |-> "",
     audio_len |-> 0, text |-> "", stt_message |-> "",
     agent_data |-> NoAgentData, ai_response |-> "",
     history |-> <<>>, hist_ids |-> <<>>, hist_coro |-> FALSE,
     messages |-> <<>>, steps |-> <<>>,
     agent_voice_id |-> "", agent_name |-> "",
     audio_url |-> "null",
     http |-> 0, error |-> "",
     calls |-> [stt |-> 0, lookup |-> 0, llm |-> 0, tts |-> 0],
     outcome |-> [stt |-> "none", lookup |-> "none", llm |-> "none", tts |-> "none"],
     db_failed |-> {},
     pair |-> {}]

\* a slot whose task is over: a handler that has answered, or a direct
\* caller whose store function has returned
Free(q) ==
    \/ q.pc \in {"idle", "end"}
    \/ q.flow \in StoreCallers /\ q.pc \in {"ah_done", "gh_done", "cc_done", "cc_raised"}

AppendPcs == {"ah_insert_user", "ah_insert_assistant", "ah_commit",
              "ah_prune", "ah_commit_prune"}

ClearPcs == {"cc_delete", "cc_commit"}


\* ---- the handlers between two awaits ---------------------------------------
\* the routes that run a chat turn
ChatFlows == {"/voice-chat", "/text-chat", "/voice-agent"}

\* replies of the chat completion
Replies == {"r2"}

\* bytes the speech synthesis streams back
AudioBytes == {"AUDIO"}

\* base64.b64encode(audio_bytes).decode('utf-8')
Base64(b) == CASE b = "AUDIO" -> "QVVESU8=" [] b = "" -> ""

\* f"data:audio/mpeg;base64,{audio_base64}"
DataUrl(b) == "data:audio/mpeg;base64," \o Base64(b)

\* the handler returns or raises HTTPException(http): the response is what
\* is left of it, with the calls it made
End(q, http, error) ==
    [q EXCEPT !.pc = "end", !.http = http, !.error = error,
              !.history = <<>>, !.hist_ids = <<>>, !.hist_coro = FALSE,
              !.messages = <<>>, !.agent_data = NoAgentData]

\* the system prompt of a flow, up to the legal text shared by all
SystemPrompt(q) ==
    IF q.flow = "/voice-agent"
    THEN "Eres " \o q.agent_name \o ", un asistente legal experto especializado en Prados de Paraiso"
    ELSE "Eres un asistente legal experto en Prados de Paraiso"

\* a get_ai_response that sends the system prompt and the new text only
GetAiResponseWithoutHistory(q) ==
    IF ~config.openai_client THEN End(q, 503, "ProviderUnavailable")
    ELSE IF q.hist_coro THEN End(q, 500, "ProviderError")
    ELSE [q EXCEPT !.messages =
                      <<[role |-> "system", content |-> SystemPrompt(q)],
                        [role |-> "user", content |-> q.text]>>,
                   !.calls.llm = @ + 1, !.steps = Append(@, "llm"),
                   !.pc = "llm_wait"]

\* get_ai_response up to the await of the completion; in /voice-chat the
\* history it is handed is the coroutine that was never awaited, which
\* messages.extend() cannot iterate
GetAiResponse(q) ==
    IF ~config.openai_client THEN End(q, 503, "ProviderUnavailable")
    ELSE IF q.hist_coro THEN End(q, 500, "ProviderError")
    ELSE [q EXCEPT !.messages =
                      <<[role |-> "system", content |-> SystemPrompt(q)]>>
                      \o q.history
                      \o <<[role |-> "user", content |-> q.text]>>,
                   !.calls.llm = @ + 1, !.steps = Append(@, "llm"),
                   !.pc = "llm_wait"]

\* what the caller of get_conversation_history does with the history q holds;
\* the body of the agent lookup is not read past this point
HistoryLoaded(q) ==
    IF q.flow \in ChatFlows
    THEN GetAiResponse([q EXCEPT !.agent_data = NoAgentData,
                                 !.steps = Append(@, "read")])
    ELSE [q EXCEPT !.pc = "gh_done"]

\* a /text-chat whose synthesis failure is fatal, as in the voice handlers
TextChatRespondFatal(q) ==
    IF ~config.elevenlabs_client
    THEN {End(q, 200, "")}
    ELSE LET c == [q EXCEPT !.calls.tts = @ + 1, !.steps = Append(@, "tts")]
         IN  {End([c EXCEPT !.outcome.tts = "ok", !.audio_url = DataUrl(b)], 200, "") :
                  b \in AudioBytes}
             \cup {End([c EXCEPT !.outcome.tts = "error"], 500, "ProviderError")}

\* /text-chat after add_to_history: the optional synthesis and the response
TextChatRespond(q) ==
    IF ~config.elevenlabs_client
    THEN {End(q, 200, "")}
    ELSE LET c == [q EXCEPT !.calls.tts = @ + 1, !.steps = Append(@, "tts"),
                            !.agent_voice_id = "5kMbtRSEKIkRZSdXxrZg"]
         IN  {End([c EXCEPT !.outcome.tts = "ok", !.audio_url = DataUrl(b)], 200, "") :
                  b \in AudioBytes}
             \cup {End([c EXCEPT !.outcome.tts = "error"], 200, "")}

\* voice handlers that answer without audio when the synthesis fails, as
\* /text-chat does
VoiceSynthesizeBestEffort(q) ==
    LET c == [q EXCEPT !.calls.tts = @ + 1, !.steps = Append(@, "tts"),
                       !.agent_voice_id =
                           IF q.flow = "/voice-chat" THEN "21m00Tcm4TlvDq8ikWAM" ELSE @]
    IN  {End([c EXCEPT !.outcome.tts = "ok", !.audio_url = DataUrl(b)], 200, "") :
             b \in AudioBytes}
        \cup {End([c EXCEPT !.outcome.tts = "error"], 200, "")}

\* the two voice handlers after add_to_history: the synthesis and the response
VoiceSynthesize(q) ==
    LET c == [q EXCEPT !.calls.tts = @ + 1, !.steps = Append(@, "tts"),
                       !.agent_voice_id =
                           IF q.flow = "/voice-chat" THEN "21m00Tcm4TlvDq8ikWAM" ELSE @]
    IN  {End([c EXCEPT !.outcome.tts = "ok", !.audio_url = DataUrl(b)], 200, "") :
             b \in AudioBytes}
        \cup {End([c EXCEPT !.outcome.tts = "error"], 500, "ProviderError")}

\* what the caller of add_to_history may do once it has returned
HistoryAppended(q) ==
    LET c == [q EXCEPT !.steps = Append(@, "append")] IN
    IF q.flow = "/text-chat" THEN TextChatRespond(c)
    ELSE IF q.flow \in ChatFlows THEN VoiceSynthesize(c)
    ELSE {[q EXCEPT !.pc = "ah_done"]}

\* a /clear-conversation that answers with the success message whatever
\* clear_conversation did
ClearRespondQuiet(q, raised) ==
    IF q.flow = "/clear-conversation"
    THEN End(q, 200, "")
    ELSE [q EXCEPT !.pc = IF raised THEN "cc_raised" ELSE "cc_done"]

\* /clear-conversation after clear_conversation: the success message, or
\* except Exception -> 500 when it raised
ClearRespond(q, raised) ==
    IF q.flow = "/clear-conversation"
    THEN IF raised THEN End(q, 500, "ClearError") ELSE End(q, 200, "")
    ELSE [q EXCEPT !.pc = IF raised THEN "cc_raised" ELSE "cc_done"]

\* ---- the clock ---------------------------------------------------------------
\* a clock whose second takes away the turns older than twenty seconds
TickExpires ==
    /\ clock < MaxTicks
    /\ \E r \in Req : reqs[r].pc \in {"ah_insert_user", "ah_insert_assistant"}
    /\ clock' = clock + 1
    /\ store' = {x \in store : x.created_at >= clock' - 20}
    /\ UNCHANGED <<nextId, tx, reqs, started, appended, cleared, dirty, config>>

\* a second goes by; CURRENT_TIMESTAMP is read by the two INSERTs only, so the
\* seconds that matter are those that end while an INSERT is about to run
Tick ==
    /\ clock < MaxTicks
    /\ \E r \in Req : reqs[r].pc \in {"ah_insert_user", "ah_insert_assistant"}
    /\ clock' = clock + 1
    /\ UNCHANGED <<store, nextId, tx, reqs, started, appended, cleared, dirty, config>>

\* ---- add_to_history (server.py:124-156) ------------------------------------
\* an INSERT of the user row on a connection in autocommit mode: the row is
\* visible at once
InsertUserAutocommit(r) ==
    LET q == reqs[r] IN
    /\ q.pc = "ah_insert_user"
    /\ tx.owner = 0
    /\ store' = store \cup {Row(nextId, q.session_id, "user", q.text, clock)}
    /\ nextId' = nextId + 1
    /\ tx' = [owner |-> r, ins |-> <<>>, del |-> {}]
    /\ reqs' = [reqs EXCEPT ![r].pc = "ah_insert_assistant"]
    /\ UNCHANGED <<clock, started, appended, cleared, dirty, config>>

\* INSERT ... VALUES (session_id, "user", user_message): opens the write
\* transaction of this connection
InsertUser(r) ==
    LET q == reqs[r] IN
    /\ q.pc = "ah_insert_user"
    /\ tx.owner = 0
    /\ tx' = [owner |-> r,
              ins |-> <<Row(nextId, q.session_id, "user", q.text, clock)>>,
              del |-> {}]
    /\ reqs' = [reqs EXCEPT ![r].pc = "ah_insert_assistant"]
    /\ UNCHANGED <<store, nextId, clock, started, appended, cleared, dirty, config>>

\* an INSERT of the reply under the session_id the request carried, not the
\* one get_or_create_session returned
InsertAssistantUnresolved(r) ==
    LET q == reqs[r] IN
    /\ q.pc = "ah_insert_assistant"
    /\ tx.owner = r
    /\ tx' = [tx EXCEPT !.ins = Append(@,
                  Row(nextId + Len(tx.ins), q.session_in, "assistant",
                      q.ai_response, clock))]
    /\ reqs' = [reqs EXCEPT ![r].pc = "ah_commit"]
    /\ UNCHANGED <<store, nextId, clock, started, appended, cleared, dirty, config>>

\* INSERT ... VALUES (session_id, "assistant", ai_response)
InsertAssistant(r) ==
    LET q == reqs[r] IN
    /\ q.pc = "ah_insert_assistant"
    /\ tx.owner = r
    /\ tx' = [tx EXCEPT !.ins = Append(@,
                  Row(nextId + Len(tx.ins), q.session_id, "assistant",
                      q.ai_response, clock))]
    /\ reqs' = [reqs EXCEPT ![r].pc = "ah_commit"]
    /\ UNCHANGED <<store, nextId, clock, started, appended, cleared, dirty, config>>

\* await db.commit(): both rows become visible
CommitInsert(r) ==
    LET q == reqs[r] IN
    /\ q.pc = "ah_commit"
    /\ tx.owner = r
    /\ store' = store \cup SetOfSeq(tx.ins)
    /\ nextId' = nextId + Len(tx.ins)
    /\ tx' = NoTx
    /\ appended' = [appended EXCEPT ![q.session_id] = @ + 1]
    /\ dirty' = [dirty EXCEPT ![q.session_id] = TRUE]
    /\ cleared' = [cleared EXCEPT ![q.session_id] = 0]
    /\ reqs' = [reqs EXCEPT ![r].pc = "ah_prune",
                            ![r].pair = {x.id : x \in SetOfSeq(tx.ins)}]
    /\ UNCHANGED <<clock, started, config>>

\* a prune whose DELETE has lost its `session_id = ?`: every row that is not
\* among the N kept of the session goes, whatever its session
PruneDeleteAnySession(r) ==
    LET q == reqs[r] IN
    /\ q.pc = "ah_prune"
    /\ tx.owner = 0
    /\ \E keep \in PruneKeepIds(store, q.session_id, MAX_HISTORY_MESSAGES) :
          tx' = [owner |-> r, ins |-> <<>>,
                 del |-> {x.id : x \in store} \ keep]
    /\ reqs' = [reqs EXCEPT ![r].pc = "ah_commit_prune"]
    /\ UNCHANGED <<store, nextId, clock, started, appended, cleared, dirty, config>>

\* DELETE FROM conversations WHERE session_id = ? AND id NOT IN (subquery)
PruneDelete(r) ==
    LET q == reqs[r] IN
    /\ q.pc = "ah_prune"
    /\ tx.owner = 0
    /\ \E keep \in PruneKeepIds(store, q.session_id, MAX_HISTORY_MESSAGES) :
          tx' = [owner |-> r, ins |-> <<>>,
                 del |-> {x.id : x \in RowsOf(store, q.session_id)} \ keep]
    /\ reqs' = [reqs EXCEPT ![r].pc = "ah_commit_prune"]
    /\ UNCHANGED <<store, nextId, clock, started, appended, cleared, dirty, config>>

\* await db.commit() after the DELETE
CommitPrune(r) ==
    LET q == reqs[r] IN
    /\ q.pc = "ah_commit_prune"
    /\ tx.owner = r
    /\ store' = {x \in store : x.id \notin tx.del}
    /\ tx' = NoTx
    /\ dirty' = [dirty EXCEPT ![q.session_id] = FALSE]
    /\ \E c \in HistoryAppended(q) : reqs' = [reqs EXCEPT ![r] = c]
    /\ UNCHANGED <<nextId, clock, started, appended, cleared, config>>

\* an add_to_history whose failure leaves behind the rows it had inserted so
\* far
AppendFailKeepsRows(r) ==
    LET q == reqs[r] IN
    /\ q.pc \in AppendPcs
    /\ tx' = IF tx.owner = r THEN NoTx ELSE tx
    /\ store' = IF tx.owner = r THEN store \cup SetOfSeq(tx.ins) ELSE store
    /\ nextId' = IF tx.owner = r THEN nextId + Len(tx.ins) ELSE nextId
    /\ \E c \in HistoryAppended([q EXCEPT !.db_failed = @ \cup {"add_to_history"}]) :
          reqs' = [reqs EXCEPT ![r] = c]
    /\ UNCHANGED <<clock, started, appended, cleared, dirty, config>>

\* except Exception: logged, not raised.  Any statement may fail (the
\* database is locked by another connection, I/O error); leaving the
\* `async with` closes the connection and rolls back what is uncommitted.
AppendFail(r) ==
    LET q == reqs[r] IN
    /\ q.pc \in AppendPcs
    /\ tx' = IF tx.owner = r THEN NoTx ELSE tx
    /\ \E c \in HistoryAppended([q EXCEPT !.db_failed = @ \cup {"add_to_history"}]) :
          reqs' = [reqs EXCEPT ![r] = c]
    /\ UNCHANGED <<store, nextId, clock, started, appended, cleared, dirty, config>>

\* ---- get_conversation_history (server.py:158-176) --------------------------
\* a read that waits while another task of the same session is between its
\* own read and the end of its append
ReadHistoryLocked(r) ==
    LET q == reqs[r] IN
    /\ q.pc = "gh_select"
    /\ \A o \in Req \ {r} :
          reqs[o].session_id = q.session_id => reqs[o].pc \notin {"llm_wait"} \cup AppendPcs
    /\ \E rows \in SelectHistory(store, q.session_id, MAX_HISTORY_MESSAGES) :
          reqs' = [reqs EXCEPT ![r] = HistoryLoaded(
                      [q EXCEPT !.history = RoleContent(rows),
                                !.hist_ids = [i \in 1..Len(rows) |-> rows[i].id]])]
    /\ UNCHANGED <<store, nextId, tx, clock, started, appended, cleared, dirty, config>>

\* the SELECT returns; the caller goes on with the turns it got
ReadHistory(r) ==
    LET q == reqs[r] IN
    /\ q.pc = "gh_select"
    /\ \E rows \in SelectHistory(store, q.session_id, MAX_HISTORY_MESSAGES) :
          reqs' = [reqs EXCEPT ![r] = HistoryLoaded(
                      [q EXCEPT !.history = RoleContent(rows),
                                !.hist_ids = [i \in 1..Len(rows) |-> rows[i].id]])]
    /\ UNCHANGED <<store, nextId, tx, clock, started, appended, cleared, dirty, config>>

\* a get_conversation_history that lets the exception reach the handler
ReadFailRaises(r) ==
    LET q == reqs[r] IN
    /\ q.pc = "gh_select"
    /\ reqs' = [reqs EXCEPT ![r] =
                  IF q.flow \in ChatFlows
                  THEN End([q EXCEPT !.db_failed = @ \cup {"get_conversation_history"}],
                           500, "ProviderError")
                  ELSE [q EXCEPT !.pc = "gh_done",
                                 !.db_failed = @ \cup {"get_conversation_history"}]]
    /\ UNCHANGED <<store, nextId, tx, clock, started, appended, cleared, dirty, config>>

\* except Exception: logged, return []
ReadFail(r) ==
    LET q == reqs[r] IN
    /\ q.pc = "gh_select"
    /\ reqs' = [reqs EXCEPT ![r] = HistoryLoaded(
                  [q EXCEPT !.history = <<>>, !.hist_ids = <<>>,
                            !.db_failed = @ \cup {"get_conversation_history"}])]
    /\ UNCHANGED <<store, nextId, tx, clock, started, appended, cleared, dirty, config>>

\* ---- clear_conversation (server.py:178-187) --------------------------------
\* a DELETE that spares the rows of the running second
ClearDeleteBeforeNow(r) ==
    LET q == reqs[r] IN
    /\ q.pc = "cc_delete"
    /\ tx.owner = 0
    /\ tx' = [owner |-> r, ins |-> <<>>,
              del |-> {x.id : x \in {y \in RowsOf(store, q.session_id) : y.created_at < clock}}]
    /\ reqs' = [reqs EXCEPT ![r].pc = "cc_commit"]
    /\ UNCHANGED <<store, nextId, clock, started, appended, cleared, dirty, config>>

\* a DELETE that raises when the session has no row
ClearDeleteExisting(r) ==
    LET q == reqs[r] IN
    /\ q.pc = "cc_delete"
    /\ tx.owner = 0
    /\ RowsOf(store, q.session_id) # {}
    /\ tx' = [owner |-> r, ins |-> <<>>,
              del |-> {x.id : x \in RowsOf(store, q.session_id)}]
    /\ reqs' = [reqs EXCEPT ![r].pc = "cc_commit"]
    /\ UNCHANGED <<store, nextId, clock, started, appended, cleared, dirty, config>>

\* DELETE FROM conversations WHERE session_id = ?
ClearDelete(r) ==
    LET q == reqs[r] IN
    /\ q.pc = "cc_delete"
    /\ tx.owner = 0
    /\ tx' = [owner |-> r, ins |-> <<>>,
              del |-> {x.id : x \in RowsOf(store, q.session_id)}]
    /\ reqs' = [reqs EXCEPT ![r].pc = "cc_commit"]
    /\ UNCHANGED <<store, nextId, clock, started, appended, cleared, dirty, config>>

\* await db.commit()
ClearCommit(r) ==
    LET q == reqs[r] IN
    /\ q.pc = "cc_commit"
    /\ tx.owner = r
    /\ store' = {x \in store : x.id \notin tx.del}
    /\ tx' = NoTx
    /\ appended' = [appended EXCEPT ![q.session_id] = 0]
    /\ cleared' = [cleared EXCEPT ![q.session_id] = @ + 1]
    /\ reqs' = [reqs EXCEPT ![r] = ClearRespond(q, FALSE)]
    /\ UNCHANGED <<nextId, clock, started, dirty, config>>

\* a clear_conversation that starts over when its DELETE or COMMIT raises
ClearFailRetries(r) ==
    LET q == reqs[r] IN
    /\ q.pc \in ClearPcs
    /\ tx' = IF tx.owner = r THEN NoTx ELSE tx
    /\ reqs' = [reqs EXCEPT ![r].pc = "cc_delete"]
    /\ UNCHANGED <<store, nextId, clock, started, appended, cleared, dirty, config>>

\* except Exception: logged, then `raise`
ClearFail(r) ==
    LET q == reqs[r] IN
    /\ q.pc \in ClearPcs
    /\ tx' = IF tx.owner = r THEN NoTx ELSE tx
    /\ reqs' = [reqs EXCEPT ![r] =
                  ClearRespond([q EXCEPT !.db_failed = @ \cup {"clear_conversation"}], TRUE)]
    /\ UNCHANGED <<store, nextId, clock, started, appended, cleared, dirty, config>>

\* the steps of the three store functions, for task r
StoreStep(r) ==
    \/ InsertUser(r)
    \/ InsertAssistant(r)
    \/ CommitInsert(r)
    \/ PruneDelete(r)
    \/ CommitPrune(r)
    \/ AppendFail(r)
    \/ ReadHistory(r)
    \/ ReadFail(r)
    \/ ClearDelete(r)
    \/ ClearCommit(r)
    \/ ClearFail(r)

\* ---- SpecStore: the store functions called directly --------------------------
\* the store after p pairs were appended to s1, all before second 0: rows 2
\* and 3 (the first reply and the second question) within one second, every
\* other row in a second of its own
Prefill(p) ==
    {Row(i, "s1", IF i % 2 = 1 THEN "user" ELSE "assistant",
         IF i % 2 = 1 THEN "q0" ELSE "r0",
         (IF i = 2 THEN 3 ELSE i) - 2 * p - 1) : i \in 1..(2 * p)}

InitStore ==
    /\ \E p \in PrefillPairs :
          /\ store = Prefill(p)
          /\ nextId = 2 * p + 1
          /\ appended = [s \in AllSessions |-> IF s = "s1" THEN p ELSE 0]
    /\ tx = NoTx
    /\ clock = 0
    /\ reqs = [r \in Req |-> IdleReq]
    /\ started = 0
    /\ dirty = [s \in AllSessions |-> FALSE]
    /\ cleared = [s \in AllSessions |-> 0]
    /\ config = FullConfig

\* a new task takes the first slot that is not inside a call
FirstFree(r) ==
    /\ Free(reqs[r])
    /\ \A o \in Req : o < r => ~Free(reqs[o])

\* the tasks once task r has started as q: the frames of the tasks that are
\* over are gone
Admit(r, q) ==
    [o \in Req |-> IF o = r THEN q ELSE IF Free(reqs[o]) THEN IdleReq ELSE reqs[o]]

NewCall(r, flow, pc, sid, u, a) ==
    /\ FirstFree(r)
    /\ started < MaxCalls
    /\ started' = started + 1
    /\ reqs' = Admit(r, [IdleReq EXCEPT !.flow = flow, !.pc = pc, !.session_id = sid,
                                         !.text = u, !.ai_response = a])
    /\ UNCHANGED <<store, nextId, tx, clock, appended, cleared, dirty, config>>

\* await add_to_history(sid, "q1", "r1")
CallAddToHistory(r) ==
    \E sid \in Sessions : NewCall(r, "add_to_history", "ah_insert_user", sid, "q1", "r1")

\* await get_conversation_history(sid)
CallGetHistory(r) ==
    \E sid \in Sessions : NewCall(r, "get_conversation_history", "gh_select", sid, "", "")

\* await clear_conversation(sid)
CallClear(r) ==
    \E sid \in Sessions : NewCall(r, "clear_conversation", "cc_delete", sid, "", "")

NextStore ==
    \/ Tick
    \/ \E r \in Req : CallAddToHistory(r)
    \/ \E r \in Req : CallGetHistory(r)
    \/ \E r \in Req : CallClear(r)
    \/ \E r \in Req : StoreStep(r)

SpecStore == InitStore /\ [][NextStore]_vars

\* the same calls on a database that was just created (init_db)
InitFresh == InitStore /\ store = {}

SpecStoreFresh == InitFresh /\ [][NextStore]_vars

\* ---- Spec: the HTTP handlers ------------------------------------------------
\* the module-level configuration a process may have come up with: the client
\* is created only when the key is set, and its construction may have failed
Configs ==
    {c \in [openai_key : BOOLEAN, openai_client : BOOLEAN, elevenlabs_client : BOOLEAN] :
        c.openai_client => c.openai_key}

\* str.strip() on a sequence of characters
RECURSIVE LStrip(_)
LStrip(cs) == IF cs # <<>> /\ Head(cs) = " " THEN LStrip(Tail(cs)) ELSE cs

Strip(cs) == Reverse(LStrip(Reverse(LStrip(cs))))

\* the string with the characters cs
RECURSIVE Str(_)
Str(cs) == IF cs = <<>> THEN "" ELSE Head(cs) \o Str(Tail(cs))

\* bodies of /text-chat: the 'text' field, absent ones read as ''
TextInputs == {<<>>, <<" ">>, <<" ", "q", "2", " ">>}

\* session_id of a request: absent (""), one the client made up, or one an
\* earlier response carried
SessionInputs ==
    {"", "s1"} \cup {reqs[o].session_id : o \in {x \in Req : reqs[x].pc = "end" /\ reqs[x].http = 200}}

GetOrCreateSession(session_id, n) ==
    IF session_id = "" THEN UUID(n) ELSE session_id

\* a /text-chat that asks for the speech client as the voice handlers do
TextChatReceiveNeedsSpeech(r) ==
    /\ FirstFree(r)
    /\ started < MaxRequests
    /\ started' = started + 1
    /\ \E cs \in TextInputs, cand \in SessionInputs :
          LET q0 == [IdleReq EXCEPT !.flow = "/text-chat", !.session_in = cand]
              text == Str(Strip(cs))
          IN  reqs' = Admit(r,
                  IF ~config.elevenlabs_client \/ ~config.openai_key
                  THEN End(q0, 503, "ProviderUnavailable")
                  ELSE IF text = "" THEN End(q0, 400, "ValidationError")
                  ELSE [q0 EXCEPT !.text = text,
                                  !.session_id = GetOrCreateSession(cand, started + 1),
                                  !.pc = "gh_select"])
    /\ UNCHANGED <<store, nextId, tx, clock, appended, cleared, dirty, config>>

\* POST /text-chat up to its first await
TextChatReceive(r) ==
    /\ FirstFree(r)
    /\ started < MaxRequests
    /\ started' = started + 1
    /\ \E cs \in TextInputs, cand \in SessionInputs :
          LET q0 == [IdleReq EXCEPT !.flow = "/text-chat", !.session_in = cand]
              text == Str(Strip(cs))
          IN  reqs' = Admit(r,
                  IF ~config.openai_key THEN End(q0, 503, "ProviderUnavailable")
                  ELSE IF text = "" THEN End(q0, 400, "ValidationError")
                  ELSE [q0 EXCEPT !.text = text,
                                  !.session_id = GetOrCreateSession(cand, started + 1),
                                  !.pc = "gh_select"])
    /\ UNCHANGED <<store, nextId, tx, clock, appended, cleared, dirty, config>>

\* the texts of a POST /tts
TtsTexts == {<<>>, <<"h", "i">>}

\* POST /tts: the handler has no await, it runs from the request to the
\* response in one step.  The HTTPException of the two checks is raised inside
\* the try whose except Exception answers 500 with the text of the exception;
\* the audio of the answer is kept in audio_url, as base64.
TextToSpeech(r) ==
    /\ FirstFree(r)
    /\ started < MaxRequests
    /\ started' = started + 1
    /\ \E cs \in TtsTexts :
          LET q0 == [IdleReq EXCEPT !.flow = "/tts", !.text = Str(cs)]
              c == [q0 EXCEPT !.calls.tts = @ + 1, !.steps = Append(@, "tts"),
                              !.agent_voice_id = "21m00Tcm4TlvDq8ikWAM"]
          IN  \/ /\ ~config.elevenlabs_client
                 /\ reqs' = Admit(r, End(q0, 500, "ProviderError"))
              \/ /\ config.elevenlabs_client
                 /\ cs = <<>>
                 /\ reqs' = Admit(r, End(q0, 500, "ProviderError"))
              \/ /\ config.elevenlabs_client
                 /\ cs # <<>>
                 /\ \/ \E b \in AudioBytes :
                          reqs' = Admit(r, End([c EXCEPT !.outcome.tts = "ok",
                                                         !.audio_url = Base64(b)], 200, ""))
                    \/ reqs' = Admit(r, End([c EXCEPT !.outcome.tts = "error"],
                                            500, "ProviderError"))
    /\ UNCHANGED <<store, nextId, tx, clock, appended, cleared, dirty, config>>

\* a /voice-agent that synthesizes the reply before it stores the pair: a
\* failed synthesis ends the request with nothing stored
CompletionReturnSynthesisFirst(r) ==
    LET q == reqs[r] IN
    /\ q.pc = "llm_wait"
    /\ \E reply \in Replies :
          LET c == [q EXCEPT !.ai_response = reply, !.outcome.llm = "ok"]
          IN  \/ reqs' = [reqs EXCEPT ![r] = [c EXCEPT !.pc = "ah_insert_user"]]
              \/ /\ q.flow = "/voice-agent"
                 /\ reqs' = [reqs EXCEPT ![r] =
                        End([c EXCEPT !.calls.tts = @ + 1, !.steps = Append(@, "tts"),
                                      !.outcome.tts = "error"],
                            500, "ProviderError")]
    /\ UNCHANGED <<store, nextId, tx, clock, started, appended, cleared, dirty, config>>

\* the completion returns; the handler goes on to await add_to_history
CompletionReturn(r) ==
    LET q == reqs[r] IN
    /\ q.pc = "llm_wait"
    /\ \E reply \in Replies :
          reqs' = [reqs EXCEPT ![r] = [q EXCEPT !.ai_response = reply,
                                                !.outcome.llm = "ok",
                                                !.pc = "ah_insert_user"]]
    /\ UNCHANGED <<store, nextId, tx, clock, started, appended, cleared, dirty, config>>

\* a handler that stores the user turn before it reports the failure of the
\* completion
CompletionErrorOrphan(r) ==
    LET q == reqs[r] IN
    /\ q.pc = "llm_wait"
    /\ store' = store \cup {Row(nextId, q.session_id, "user", q.text, clock)}
    /\ nextId' = nextId + 1
    /\ reqs' = [reqs EXCEPT ![r] =
                  End([q EXCEPT !.outcome.llm = "error"], 500, "ProviderError")]
    /\ UNCHANGED <<tx, clock, started, appended, cleared, dirty, config>>

\* a handler that stores the turn although the completion raised
CompletionErrorGoesOn(r) ==
    LET q == reqs[r] IN
    /\ q.pc = "llm_wait"
    /\ reqs' = [reqs EXCEPT ![r] = [q EXCEPT !.outcome.llm = "error",
                                              !.pc = "ah_insert_user"]]
    /\ UNCHANGED <<store, nextId, tx, clock, started, appended, cleared, dirty, config>>

\* a handler that asks for the completion a second time when the first call
\* raised
CompletionErrorRetry(r) ==
    LET q == reqs[r] IN
    /\ q.pc = "llm_wait"
    /\ reqs' = [reqs EXCEPT ![r] =
                  IF q.calls.llm < 2
                  THEN [q EXCEPT !.calls.llm = @ + 1, !.steps = Append(@, "llm")]
                  ELSE End([q EXCEPT !.outcome.llm = "error"], 500, "ProviderError")]
    /\ UNCHANGED <<store, nextId, tx, clock, started, appended, cleared, dirty, config>>

\* the completion raises (timeout included)
CompletionError(r) ==
    LET q == reqs[r] IN
    /\ q.pc = "llm_wait"
    /\ reqs' = [reqs EXCEPT ![r] =
                  End([q EXCEPT !.outcome.llm = "error"], 500, "ProviderError")]
    /\ UNCHANGED <<store, nextId, tx, clock, started, appended, cleared, dirty, config>>

\* a /text-chat body that names the format whether or not there is audio
TextChatBodyAlwaysMp3(q) ==
    [session_id |-> q.session_id, user_text |-> q.text,
     ai_response |-> q.ai_response, audio_url |-> q.audio_url,
     format |-> "mp3"]

\* the body of a /text-chat response; `"mp3" if audio_url else None` is None
\* for None and for the empty string
TextChatBody(q) ==
    [session_id |-> q.session_id, user_text |-> q.text,
     ai_response |-> q.ai_response, audio_url |-> q.audio_url,
     format |-> IF q.audio_url \notin {"null", ""} THEN "mp3" ELSE "null"]

\* a /clear-conversation that empties the table when it is given no session
\* id, before it refuses the request
ClearReceiveEverything(r) ==
    /\ FirstFree(r)
    /\ started < MaxRequests
    /\ started' = started + 1
    /\ \E cand \in SessionInputs :
          LET q0 == [IdleReq EXCEPT !.flow = "/clear-conversation", !.session_in = cand]
          IN  /\ reqs' = Admit(r,
                     IF cand = "" THEN End(q0, 400, "ValidationError")
                     ELSE [q0 EXCEPT !.session_id = cand, !.pc = "cc_delete"])
              /\ store' = IF cand = "" THEN {} ELSE store
    /\ UNCHANGED <<nextId, tx, clock, appended, cleared, dirty, config>>

\* POST /clear-conversation up to the await of clear_conversation
ClearReceive(r) ==
    /\ FirstFree(r)
    /\ started < MaxRequests
    /\ started' = started + 1
    /\ \E cand \in SessionInputs :
          LET q0 == [IdleReq EXCEPT !.flow = "/clear-conversation", !.session_in = cand]
          IN  reqs' = Admit(r,
                  IF cand = "" THEN End(q0, 400, "ValidationError")
                  ELSE [q0 EXCEPT !.session_id = cand, !.pc = "cc_delete"])
    /\ UNCHANGED <<store, nextId, tx, clock, appended, cleared, dirty, config>>

\* sizes of the uploaded audio, in bytes
AudioLens == {200, 1000}

\* len(audio_content) < 1000 in /voice-agent
MinAudioBytes == 1000

\* texts the transcription returns
Transcripts == {<<>>, <<" ">>, <<"q", "3">>}

\* messages of the exceptions the transcription raises
SttErrors == {"audio_too_short", "status 400 Bad Request", "timed out"}

\* the status /voice-agent gives a transcription exception with message m:
\* a substring test on each of the messages above
ClassifySttError(m) ==
    CASE m = "audio_too_short" -> [http |-> 400, error |-> "AudioTooShort"]
      [] m = "status 400 Bad Request" -> [http |-> 400, error |-> "BadRequest"]
      [] OTHER -> [http |-> 500, error |-> "ProviderError"]

\* str() of the HTTPException(400) raised for an empty transcript inside the
\* try of /voice-agent: "400: <detail>" where the class defines __str__, ""
\* where it does not; the except clause classifies it like any other message
EmptyTranscriptOutcomes ==
    {[http |-> 400, error |-> "BadRequest"], [http |-> 500, error |-> "ProviderError"]}

\* what GET /v1/convai/agents/{agent_id} may answer; "raise" is an exception
\* of the client (timeout, connection, body that is not JSON).  A
\* conversation_config of [null |-> TRUE] is the JSON null, on which .get
\* raises AttributeError.
AgentResponses ==
    {[status |-> "raise", body |-> [none |-> ""]],
     [status |-> "404", body |-> [none |-> ""]],
     [status |-> "200", body |-> [name |-> "Ana"]],
     [status |-> "200", body |-> [conversation_config |-> [null |-> TRUE], name |-> "Ana"]],
     [status |-> "200", body |-> [conversation_config |-> [tts |-> [voice_id |-> "v9"]]]],
     [status |-> "200", body |-> [conversation_config |-> [tts |-> [voice_id |-> "v9"]],
                                  name |-> "Ana"]]}

\* the try block of the lookup raises: the client did, or the body has not
\* the shape the code reads
LookupRaises(a) ==
    \/ a.status = "raise"
    \/ /\ a.status = "200"
       /\ "conversation_config" \in DOMAIN a.body
       /\ "null" \in DOMAIN a.body.conversation_config

\* the voice and the name after the lookup answered a, from the defaults
\* voice and name
AgentDetails(a, voice, name) ==
    IF a.status = "200" /\ ~LookupRaises(a) /\ "conversation_config" \in DOMAIN a.body
    THEN [voice |-> IF "voice_id" \in DOMAIN a.body.conversation_config.tts
                    THEN a.body.conversation_config.tts.voice_id ELSE voice,
          name |-> IF "name" \in DOMAIN a.body THEN a.body.name ELSE name]
    ELSE [voice |-> voice, name |-> name]

\* POST /voice-chat and POST /voice-agent up to await audio.read(): the two
\* handlers start with the same checks
VoiceReceive(r, flow) ==
    /\ FirstFree(r)
    /\ started < MaxRequests
    /\ started' = started + 1
    /\ \E len \in AudioLens, cand \in SessionInputs :
          LET q0 == [IdleReq EXCEPT !.flow = flow, !.session_in = cand]
          IN  reqs' = Admit(r,
                  IF ~config.elevenlabs_client \/ ~config.openai_key
                  THEN End(q0, 503, "ProviderUnavailable")
                  ELSE [q0 EXCEPT !.session_id = GetOrCreateSession(cand, started + 1),
                                  !.audio_len = len,
                                  !.pc = "audio_read"])
    /\ UNCHANGED <<store, nextId, tx, clock, appended, cleared, dirty, config>>

VoiceChatReceive(r) == VoiceReceive(r, "/voice-chat")

VoiceAgentReceive(r) == VoiceReceive(r, "/voice-agent")

\* /voice-chat from the transcription into get_ai_response; the history is
\* assigned the coroutine of get_conversation_history, not its result
VoiceChatTranscribe(r) ==
    LET q == reqs[r]
        c == [q EXCEPT !.calls.stt = @ + 1, !.steps = Append(@, "stt")]
    IN
    /\ q.flow = "/voice-chat"
    /\ q.pc = "audio_read"
    /\ \/ \E t \in Transcripts :
             reqs' = [reqs EXCEPT ![r] =
                 IF Strip(t) = <<>>
                 THEN End([c EXCEPT !.outcome.stt = "ok"], 400, "EmptyTranscript")
                 ELSE GetAiResponse([c EXCEPT !.outcome.stt = "ok", !.text = Str(t),
                                              !.hist_coro = TRUE])]
       \/ \E m \in SttErrors :
             reqs' = [reqs EXCEPT ![r] =
                 End([c EXCEPT !.outcome.stt = "error", !.stt_message = m],
                     500, "ProviderError")]
    /\ UNCHANGED <<store, nextId, tx, clock, started, appended, cleared, dirty, config>>

\* a /voice-agent that does not look at the transcript before it goes on
VoiceAgentTranscribeUnchecked(r) ==
    LET q == reqs[r]
        c == [q EXCEPT !.calls.stt = @ + 1, !.steps = Append(@, "stt")]
    IN
    /\ q.flow = "/voice-agent"
    /\ q.pc = "audio_read"
    /\ IF q.audio_len < MinAudioBytes
       THEN reqs' = [reqs EXCEPT ![r] = End(q, 400, "AudioTooShort")]
       ELSE \/ \E t \in Transcripts :
                  reqs' = [reqs EXCEPT ![r] =
                      [c EXCEPT !.outcome.stt = "ok", !.text = Str(Strip(t)),
                                !.agent_voice_id = "5kMbtRSEKIkRZSdXxrZg",
                                !.agent_name = "Doctor Prados de Paraiso",
                                !.calls.lookup = @ + 1, !.steps = Append(@, "lookup"),
                                !.pc = "lookup_wait"]]
            \/ \E m \in SttErrors :
                  reqs' = [reqs EXCEPT ![r] =
                      End([c EXCEPT !.outcome.stt = "error", !.stt_message = m],
                          ClassifySttError(m).http, ClassifySttError(m).error)]
    /\ UNCHANGED <<store, nextId, tx, clock, started, appended, cleared, dirty, config>>

\* a /voice-agent that asks for the agent details before it transcribes: the
\* lookup is made whatever the transcription gives
VoiceAgentTranscribeAfterLookup(r) ==
    LET q == reqs[r]
        c == [q EXCEPT !.calls.lookup = @ + 1, !.calls.stt = @ + 1,
                       !.steps = @ \o <<"lookup", "stt">>]
    IN
    /\ q.flow = "/voice-agent"
    /\ q.pc = "audio_read"
    /\ IF q.audio_len < MinAudioBytes
       THEN reqs' = [reqs EXCEPT ![r] = End(q, 400, "AudioTooShort")]
       ELSE \/ \E t \in Transcripts :
                  IF Strip(t) = <<>>
                  THEN \E e \in EmptyTranscriptOutcomes :
                          reqs' = [reqs EXCEPT ![r] =
                              End([c EXCEPT !.outcome.stt = "ok"], e.http, e.error)]
                  ELSE reqs' = [reqs EXCEPT ![r] =
                          [c EXCEPT !.outcome.stt = "ok", !.text = Str(t),
                                    !.agent_voice_id = "5kMbtRSEKIkRZSdXxrZg",
                                    !.agent_name = "Doctor Prados de Paraiso",
                                    !.pc = "lookup_wait"]]
            \/ \E m \in SttErrors :
                  reqs' = [reqs EXCEPT ![r] =
                      End([c EXCEPT !.outcome.stt = "error", !.stt_message = m],
                          ClassifySttError(m).http, ClassifySttError(m).error)]
    /\ UNCHANGED <<store, nextId, tx, clock, started, appended, cleared, dirty, config>>

\* /voice-agent from the length check to the await of the agent lookup
VoiceAgentTranscribe(r) ==
    LET q == reqs[r]
        c == [q EXCEPT !.calls.stt = @ + 1, !.steps = Append(@, "stt")]
    IN
    /\ q.flow = "/voice-agent"
    /\ q.pc = "audio_read"
    /\ IF q.audio_len < MinAudioBytes
       THEN reqs' = [reqs EXCEPT ![r] = End(q, 400, "AudioTooShort")]
       ELSE \/ \E t \in Transcripts :
                  IF Strip(t) = <<>>
                  THEN \E e \in EmptyTranscriptOutcomes :
                          reqs' = [reqs EXCEPT ![r] =
                              End([c EXCEPT !.outcome.stt = "ok"], e.http, e.error)]
                  ELSE reqs' = [reqs EXCEPT ![r] =
                          [c EXCEPT !.outcome.stt = "ok", !.text = Str(t),
                                    !.agent_voice_id = "5kMbtRSEKIkRZSdXxrZg",
                                    !.agent_name = "Doctor Prados de Paraiso",
                                    !.calls.lookup = @ + 1, !.steps = Append(@, "lookup"),
                                    !.pc = "lookup_wait"]]
            \/ \E m \in SttErrors :
                  reqs' = [reqs EXCEPT ![r] =
                      End([c EXCEPT !.outcome.stt = "error", !.stt_message = m],
                          ClassifySttError(m).http, ClassifySttError(m).error)]
    /\ UNCHANGED <<store, nextId, tx, clock, started, appended, cleared, dirty, config>>

\* a /voice-agent that needs the agent lookup: the request fails when the
\* lookup does
VoiceAgentLookupRequired(r) ==
    LET q == reqs[r] IN
    /\ q.flow = "/voice-agent"
    /\ q.pc = "lookup_wait"
    /\ \E a \in AgentResponses :
          reqs' = [reqs EXCEPT ![r] =
              IF a.status = "200" /\ ~LookupRaises(a)
              THEN [q EXCEPT !.outcome.lookup = "ok",
                             !.agent_data = a,
                             !.agent_voice_id = AgentDetails(a, @, q.agent_name).voice,
                             !.agent_name = AgentDetails(a, q.agent_voice_id, @).name,
                             !.pc = "gh_select"]
              ELSE End([q EXCEPT !.outcome.lookup = "error"], 500, "ProviderError")]
    /\ UNCHANGED <<store, nextId, tx, clock, started, appended, cleared, dirty, config>>

\* the agent lookup answers or raises; the handler goes on to await
\* get_conversation_history
VoiceAgentLookup(r) ==
    LET q == reqs[r] IN
    /\ q.flow = "/voice-agent"
    /\ q.pc = "lookup_wait"
    /\ \E a \in AgentResponses :
          reqs' = [reqs EXCEPT ![r] =
              [q EXCEPT !.outcome.lookup =
                            IF a.status = "200" /\ ~LookupRaises(a) THEN "ok" ELSE "error",
                        !.agent_data = a,
                        !.agent_voice_id = AgentDetails(a, @, q.agent_name).voice,
                        !.agent_name = AgentDetails(a, q.agent_voice_id, @).name,
                        !.pc = "gh_select"]]
    /\ UNCHANGED <<store, nextId, tx, clock, started, appended, cleared, dirty, config>>

\* the server after startup: the database just created, no request yet
Init ==
    /\ store = {}
    /\ nextId = 1
    /\ tx = NoTx
    /\ clock = 0
    /\ reqs = [r \in Req |-> IdleReq]
    /\ started = 0
    /\ appended = [s \in AllSessions |-> 0]
    /\ dirty = [s \in AllSessions |-> FALSE]
    /\ cleared = [s \in AllSessions |-> 0]
    /\ config \in Configs

Next ==
    \/ Tick
    \/ \E r \in Req : VoiceChatReceive(r)
    \/ \E r \in Req : TextChatReceive(r)
    \/ \E r \in Req : VoiceAgentReceive(r)
    \/ \E r \in Req : ClearReceive(r)
    \/ \E r \in Req : TextToSpeech(r)
    \/ \E r \in Req : VoiceChatTranscribe(r)
    \/ \E r \in Req : VoiceAgentTranscribe(r)
    \/ \E r \in Req : VoiceAgentLookup(r)
    \/ \E r \in Req : StoreStep(r)
    \/ \E r \in Req : CompletionReturn(r)
    \/ \E r \in Req : CompletionError(r)

Spec == Init /\ [][Next]_vars

\* what the event loop runs for task r once its handler was entered: the
\* continuation of the await it is suspended on
Continue(r) ==
    \/ VoiceChatTranscribe(r)
    \/ VoiceAgentTranscribe(r)
    \/ VoiceAgentLookup(r)
    \/ StoreStep(r)
    \/ CompletionReturn(r)
    \/ CompletionError(r)

\* the requests of one second: the handlers never wait for the clock
NextLive ==
    \/ \E r \in Req : VoiceChatReceive(r)
    \/ \E r \in Req : TextChatReceive(r)
    \/ \E r \in Req : VoiceAgentReceive(r)
    \/ \E r \in Req : ClearReceive(r)
    \/ \E r \in Req : TextToSpeech(r)
    \/ \E r \in Req : Continue(r)

\* the handlers when every awaited call returns or raises: the event loop
\* resumes each suspended task
SpecLive == Init /\ [][NextLive]_vars /\ \A r \in Req : WF_vars(Continue(r))

\* ---- claims on the history store ------------------------------------------
IsRead(r) ==
    /\ reqs[r].pc = "gh_select"
    /\ reqs'[r].pc # "gh_select"
    /\ "get_conversation_history" \notin reqs'[r].db_failed

\* the session holds exactly min(2k, N) turns, k the pairs inserted since the
\* last clear, whenever every insert has been followed by a committed prune
CountOK ==
    \A s \in AllSessions :
        ~dirty[s] =>
            Cardinality(RowsOf(store, s)) = Min(2 * appended[s], MAX_HISTORY_MESSAGES)

\* a step that removes rows of a session while keeping others removes no
\* row created later than a row it keeps
PruneStepOK ==
    \A x \in store \ store' : \A k \in store' :
        x.session_id = k.session_id => x.created_at <= k.created_at

\* C1 (History bound): after k add_to_history calls whose insert and prune
\* both committed, a session holds exactly min(2k, MAX_HISTORY_MESSAGES)
\* turns, and no prune removes a turn with a later created_at than a turn
\* it keeps.
C1_HistoryBound == CountOK /\ [][CountOK' /\ PruneStepOK]_vars

\* C1 witness: eleven pairs were appended to s1, the prune ran, and the two
\* oldest turns are gone.
C1_Witness ==
    /\ appended["s1"] = 11
    /\ ~dirty["s1"]
    /\ Cardinality(RowsOf(store, "s1")) = MAX_HISTORY_MESSAGES
    /\ \E x \in store : x.id = 22

\* the turns of a read, in read order: every user turn is directly followed
\* by the assistant turn of the same call (the row inserted right after it)
PairedInOrder(q) ==
    \A i \in 1..Len(q.hist_ids) :
        q.history[i].role = "user" =>
            /\ i < Len(q.hist_ids)
            /\ q.history[i + 1].role = "assistant"
            /\ q.hist_ids[i + 1] = q.hist_ids[i] + 1

\* C2 (Pairing integrity): in every result of get_conversation_history each
\* user turn is immediately followed by the assistant turn of the same
\* add_to_history call, and the store never holds a user turn without its
\* assistant turn.
C2_PairingIntegrity ==
    /\ \A r \in Req : reqs[r].pc = "gh_done" => PairedInOrder(reqs[r])
    /\ \A x \in store :
          x.role = "user" =>
              \E y \in store : y.id = x.id + 1 /\ y.role = "assistant"
                                /\ y.session_id = x.session_id

\* what "the most recent n turns, ascending" asks of the ids a read of
\* session sid returned from store S
MostRecentAscending(S, sid, ids, n) ==
    LET R   == RowsOf(S, sid)
        Got == {x \in R : \E i \in 1..Len(ids) : ids[i] = x.id}
        At(i) == CHOOSE x \in R : x.id = ids[i]
    IN  /\ Len(ids) = Min(n, Cardinality(R))
        /\ Cardinality(Got) = Len(ids)
        /\ \A x \in R \ Got : \A y \in Got : x.created_at <= y.created_at
        /\ \A i \in 1..(Len(ids) - 1) : At(i).created_at <= At(i + 1).created_at

\* C3 (History window on read): every successful get_conversation_history
\* returns the most recent MAX_HISTORY_MESSAGES turns of the session in
\* ascending creation order, also when the store holds more than that.
C3_ReadMostRecent ==
    [][\A r \in Req :
          IsRead(r) =>
              MostRecentAscending(store, reqs[r].session_id, reqs'[r].hist_ids,
                                  MAX_HISTORY_MESSAGES)]_vars

\* ---- claims on the handlers ------------------------------------------------
\* a /voice-chat request that is over, had both providers and a non-empty
\* transcript, and saw no provider call fail
VoiceChatHealthy(q) ==
    /\ q.flow = "/voice-chat"
    /\ q.pc = "end"
    /\ config.openai_client /\ config.elevenlabs_client
    /\ q.audio_len >= MinAudioBytes
    /\ q.outcome.stt = "ok" /\ q.text # ""
    /\ q.outcome.llm # "error" /\ q.outcome.tts # "error"

\* C4: a /voice-chat request with both providers configured, a non-empty
\* transcript and no failing provider call has called the completion once,
\* has appended its pair unless the store failed, and ends in RESPONDED with
\* session_id, transcript, reply and audio
C4_VoiceSuccessPath ==
    \A r \in Req :
        LET q == reqs[r] IN
        VoiceChatHealthy(q) =>
            /\ q.http = 200
            /\ q.calls.llm = 1
            /\ "add_to_history" \notin q.db_failed => q.pair # {}
            /\ q.session_id # "" /\ q.ai_response \in Replies /\ q.audio_url # "null"

\* C5: in /voice-chat and /voice-agent a request whose audio is shorter than
\* the threshold is rejected with AudioTooShort (400) as soon as the audio
\* is read, without any call of the transcription, completion or synthesis
\* provider
C5_ShortAudioRejected ==
    \A r \in Req :
        LET q == reqs[r] IN
        (/\ q.flow \in {"/voice-chat", "/voice-agent"}
         /\ q.pc # "audio_read"
         /\ q.audio_len \in 1..(MinAudioBytes - 1)) =>
            /\ q.pc = "end" /\ q.http = 400 /\ q.error = "AudioTooShort"
            /\ q.calls.stt = 0 /\ q.calls.llm = 0 /\ q.calls.tts = 0

\* a /text-chat request that is over, whose completion succeeded and whose
\* synthesis call failed
TextSynthesisFailed(q) ==
    /\ q.flow = "/text-chat"
    /\ q.pc = "end"
    /\ q.outcome.llm = "ok"
    /\ q.outcome.tts = "error"

\* C6: a /text-chat request whose completion succeeded and whose synthesis
\* failed ends in RESPONDED (200) with the reply, audio_url null and format
\* null, and the step that answers deletes no row of the pair it appended
C6_BestEffortSynthesis ==
    /\ [](\A r \in Req :
            TextSynthesisFailed(reqs[r]) =>
                /\ reqs[r].http = 200
                /\ TextChatBody(reqs[r]).ai_response \in Replies
                /\ TextChatBody(reqs[r]).audio_url = "null"
                /\ TextChatBody(reqs[r]).format = "null")
    /\ [][\A r \in Req :
            (reqs[r].pc # "end" /\ TextSynthesisFailed(reqs'[r])) =>
                \A x \in store : x.id \in reqs'[r].pair => x \in store']_vars

C6_Witness ==
    \E r \in Req :
        /\ TextSynthesisFailed(reqs[r])
        /\ reqs[r].pair # {}
        /\ \A i \in reqs[r].pair : \E x \in store : x.id = i

\* a chat request with valid input (non-empty text or transcript, audio of
\* the minimum length) that is over and whose provider calls all succeeded
ChatHealthy(q) ==
    /\ q.flow \in ChatFlows
    /\ q.pc = "end"
    /\ config.openai_client
    /\ q.text # ""
    /\ q.flow # "/text-chat" => q.audio_len >= MinAudioBytes
    /\ \A p \in DOMAIN q.outcome : q.outcome[p] # "error"

\* the session_id of a response: the one the request sent when it sent one,
\* else a non-empty one that no other request's row carries
SessionAnswered(q) ==
    /\ q.http = 200
    /\ q.session_id # ""
    /\ q.session_in # "" => q.session_id = q.session_in
    /\ q.session_in = "" =>
          q.session_id \notin
              {"s1"} \cup {x.session_id : x \in {y \in store : y.id \notin q.pair}}

\* a chat request that reads the history of its session gets every turn
\* stored for it, as long as the session is within its bound
ReadsStoredTurns ==
    \A r \in Req :
        (/\ reqs[r].flow \in ChatFlows
         /\ reqs[r].pc = "gh_select"
         /\ reqs'[r].pc = "llm_wait"
         /\ "get_conversation_history" \notin reqs'[r].db_failed
         /\ Cardinality(RowsOf(store, reqs[r].session_id)) <= MAX_HISTORY_MESSAGES) =>
            SetOfSeq(reqs'[r].hist_ids) = {x.id : x \in RowsOf(store, reqs[r].session_id)}

\* C7: in each chat flow (/voice-chat, /text-chat, /voice-agent) a request
\* with valid input whose provider calls all succeed is answered with a
\* session_id, the one it sent or a non-empty new one, and a request that
\* comes with a session_id reads the turns stored under it
C7_SessionMinting ==
    /\ [](\A r \in Req : ChatHealthy(reqs[r]) => SessionAnswered(reqs[r]))
    /\ [][ReadsStoredTurns]_vars

\* a clear_conversation that can take the write lock is never refused,
\* whether or not the session has rows
ClearNeverRefused ==
    \A r \in Req :
        /\ (reqs[r].pc = "cc_delete" /\ tx.owner = 0) => ENABLED ClearDelete(r)
        /\ reqs[r].pc = "cc_commit" => ENABLED ClearCommit(r)

\* a clear_conversation that returns leaves no row of its session
ClearLeavesNothing ==
    \A r \in Req :
        (/\ reqs[r].pc = "cc_commit"
         /\ reqs'[r].pc \notin ClearPcs
         /\ "clear_conversation" \notin reqs'[r].db_failed) =>
            RowsOf(store', reqs[r].session_id) = {}

\* C8: clear_conversation succeeds on a session with rows, on one that was
\* just cleared and on one that never had rows, and each call that returns
\* leaves zero turns for the session
C8_IdempotentClear == []ClearNeverRefused /\ [][ClearLeavesNothing]_vars

C8_Witness ==
    /\ cleared["s1"] = 2
    /\ nextId > 1
    /\ RowsOf(store, "s1") = {}

\* C9: a /clear-conversation whose clear_conversation raised ends with a
\* server error (500), and the success message is only ever returned by the
\* step that committed the delete, which leaves no turn of the session
C9_ClearFailurePropagates ==
    /\ [](\A r \in Req :
            (/\ reqs[r].flow = "/clear-conversation"
             /\ reqs[r].pc = "end"
             /\ "clear_conversation" \in reqs[r].db_failed) => reqs[r].http = 500)
    /\ [][\A r \in Req :
            (/\ reqs[r].pc \in ClearPcs
             /\ reqs'[r].flow = "/clear-conversation"
             /\ reqs'[r].pc = "end"
             /\ reqs'[r].http = 200) =>
                /\ reqs[r].pc = "cc_commit"
                /\ RowsOf(store', reqs[r].session_id) = {}]_vars

C9_Witness ==
    \E r \in Req :
        /\ reqs[r].flow = "/clear-conversation"
        /\ reqs[r].pc = "end"
        /\ reqs[r].http = 500
        /\ "clear_conversation" \in reqs[r].db_failed
        /\ RowsOf(store, reqs[r].session_id) # {}

\* C10 as stated: in the text and agent flows a request whose completion
\* succeeded and whose history read or append failed ends in RESPONDED
C10_SilentAsStated ==
    \A r \in Req :
        LET q == reqs[r] IN
        (/\ q.flow \in {"/text-chat", "/voice-agent"}
         /\ q.pc = "end"
         /\ q.outcome.llm = "ok"
         /\ q.db_failed # {}) => q.http = 200

\* C10: in the text and agent flows a failed history read makes the prompt
\* the system message and the user message alone, and a request whose read
\* or append failed and whose completion succeeded ends in RESPONDED, in the
\* agent flow unless its synthesis call failed; the only errors such a
\* request ends with are those of a provider call that failed
C10_SilentFailures ==
    \A r \in Req :
        LET q == reqs[r] IN
        (q.flow \in {"/text-chat", "/voice-agent"} /\ q.db_failed # {}) =>
            /\ q.pc = "llm_wait" =>
                  q.messages = <<[role |-> "system", content |-> SystemPrompt(q)],
                                 [role |-> "user", content |-> q.text]>>
            /\ (q.pc = "end" /\ q.outcome.llm = "ok" /\ q.flow = "/text-chat") =>
                  q.http = 200
            /\ (q.pc = "end" /\ q.outcome.llm = "ok" /\ q.outcome.tts # "error") =>
                  q.http = 200
            /\ (q.pc = "end" /\ q.http # 200) =>
                  \/ q.outcome.llm = "error"
                  \/ q.outcome.llm = "ok" /\ q.outcome.tts = "error" /\ q.flow = "/voice-agent"
                  \/ q.outcome.llm = "none" /\ ~config.openai_client

C10_Witness ==
    \E r \in Req :
        /\ reqs[r].flow = "/voice-agent"
        /\ reqs[r].pc = "end"
        /\ reqs[r].http = 200
        /\ reqs[r].db_failed = {"get_conversation_history", "add_to_history"}

\* the step of task r in which get_ai_response raises: the provider call
\* failed, or the client was never built, or the messages could not be built
CompletionFails(r) ==
    /\ reqs[r].pc # "end"
    /\ reqs'[r].pc = "end"
    /\ reqs'[r].flow \in ChatFlows
    /\ reqs'[r].outcome.llm # "ok"
    /\ \/ reqs[r].pc \in {"llm_wait", "gh_select"}
       \/ reqs[r].pc = "audio_read" /\ reqs'[r].text # ""

\* every user turn of the store is followed by the assistant turn inserted
\* with it
NoUserOnlyTurn ==
    \A x \in store : x.role = "user" =>
        \E y \in store : y.id = x.id + 1 /\ y.role = "assistant"
                                          /\ y.session_id = x.session_id

\* C11: in every flow a request whose completion step fails (provider error,
\* timeout, client not configured) ends as a failure and leaves the store
\* exactly as it was: it has written nothing, has not called add_to_history,
\* and no user turn without its assistant turn is ever in the store.
C11_NoPersistenceWithoutCompletion ==
    /\ []NoUserOnlyTurn
    /\ [][\A r \in Req : CompletionFails(r) =>
            /\ reqs'[r].http \in {500, 503}
            /\ store' = store
            /\ tx' = tx
            /\ reqs'[r].pair = {}
            /\ "add_to_history" \notin reqs'[r].db_failed]_vars

\* a request whose completion raised is over with a 500 and its session has no
\* turn, while the completion of another request was stored
C11_Witness ==
    \E r \in Req, o \in Req :
        /\ reqs[r].pc = "end"
        /\ reqs[r].outcome.llm = "error"
        /\ reqs[r].http = 500
        /\ RowsOf(store, reqs[r].session_id) = {}
        /\ reqs[o].pair # {}

Ids(rows) == {x.id : x \in rows}

\* a /voice-agent request that is over, whose completion succeeded and whose
\* synthesis raised
AgentSynthesisFailed(q) ==
    /\ q.flow = "/voice-agent"
    /\ q.pc = "end"
    /\ q.outcome.llm = "ok"
    /\ q.outcome.tts = "error"

\* the rows a request committed are in the store when it commits them, and
\* the step that ends the request takes none of them away
PairKept(r) ==
    /\ reqs'[r].pair # reqs[r].pair /\ reqs'[r].pair # {} => reqs'[r].pair \subseteq Ids(store')
    /\ reqs[r].pc # "end" /\ reqs'[r].pc = "end" =>
          reqs'[r].pair \cap Ids(store) \subseteq Ids(store')

\* C12 as stated: a /voice-agent request whose completion succeeds and whose
\* synthesis then fails ends with a server error and no audio, and has stored
\* the pair (transcript, reply).
C12_PairAlwaysStored ==
    \A r \in Req : AgentSynthesisFailed(reqs[r]) =>
        /\ reqs[r].http = 500
        /\ reqs[r].audio_url = "null"
        /\ reqs[r].pair # {}

\* C12: a /voice-agent request whose completion succeeds and whose synthesis
\* then fails ends with a server error and no audio; unless its append itself
\* failed (which is absorbed), it committed the pair (transcript, reply) to the
\* session's history before the synthesis, and the failure removes nothing of it.
C12_PersistBeforeSynthesis ==
    /\ [](\A r \in Req : AgentSynthesisFailed(reqs[r]) =>
            /\ reqs[r].http = 500
            /\ reqs[r].audio_url = "null"
            /\ "add_to_history" \notin reqs[r].db_failed =>
                  /\ Cardinality(reqs[r].pair) = 2
                  /\ \A x \in store : x.id \in reqs[r].pair =>
                        /\ x.session_id = reqs[r].session_id
                        /\ x.content = IF x.role = "user" THEN reqs[r].text
                                       ELSE reqs[r].ai_response)
    /\ [][\A r \in Req : reqs'[r].flow = "/voice-agent" => PairKept(r)]_vars

\* a /voice-agent request ended with 500 after a failed synthesis and its two
\* turns are in the store
C12_Witness ==
    \E r \in Req :
        /\ AgentSynthesisFailed(reqs[r])
        /\ reqs[r].http = 500
        /\ Cardinality(reqs[r].pair) = 2
        /\ reqs[r].pair \subseteq Ids(RowsOf(store, reqs[r].session_id))

VoiceFlows == {"/voice-chat", "/voice-agent"}

\* the transcription of q answered and its text, stripped, is empty
EmptyTranscribed(q) ==
    /\ q.flow \in VoiceFlows
    /\ q.outcome.stt = "ok"
    /\ q.text = ""

\* C13: in both voice-in flows, when the transcription succeeds with an empty
\* or whitespace-only text the request fails in that very step: it is never
\* waiting for the agent lookup, the history read, the completion or the
\* append, it made no completion, lookup or synthesis call, and it touched
\* neither the store nor a transaction.
C13_EmptyTranscriptStops ==
    /\ [](\A r \in Req : EmptyTranscribed(reqs[r]) =>
            /\ reqs[r].pc = "end"
            /\ reqs[r].http \in {400, 500}
            /\ reqs[r].calls.lookup = 0
            /\ reqs[r].calls.llm = 0
            /\ reqs[r].calls.tts = 0
            /\ reqs[r].ai_response = ""
            /\ reqs[r].audio_url = "null"
            /\ reqs[r].pair = {}
            /\ reqs[r].db_failed = {})
    /\ [][\A r \in Req :
            reqs[r].pc = "audio_read" /\ EmptyTranscribed(reqs'[r]) =>
                store' = store /\ tx' = tx]_vars

\* a /voice-chat and a /voice-agent request are both over after an empty
\* transcript, each having made its one transcription call
C13_Witness ==
    \E r \in Req, o \in Req :
        /\ EmptyTranscribed(reqs[r]) /\ reqs[r].flow = "/voice-chat"
        /\ EmptyTranscribed(reqs[o]) /\ reqs[o].flow = "/voice-agent"
        /\ reqs[r].calls.stt = 1 /\ reqs[o].calls.stt = 1
        /\ reqs[r].pc = "end" /\ reqs[o].pc = "end"

\* C14: in both voice-in flows a transcription that succeeds with an empty or
\* whitespace-only text makes the request fail with EmptyTranscript, a client
\* error that is none of AudioTooShort, BadRequest and ProviderError, and the
\* caller receives that error as it was raised.
C14_EmptyTranscriptKind ==
    \A r \in Req : EmptyTranscribed(reqs[r]) /\ reqs[r].pc = "end" =>
        /\ reqs[r].http = 400
        /\ reqs[r].error = "EmptyTranscript"

\* C15: in both voice-in flows, when the speech-to-text call fails the request
\* fails with AudioTooShort (400) if the provider message tells of too short
\* an audio, with BadRequest (400) if it tells of a bad request, and with
\* ProviderError (500) otherwise.
C15_TranscriptionErrorClassified ==
    \A r \in Req :
        reqs[r].flow \in VoiceFlows /\ reqs[r].outcome.stt = "error" =>
            /\ reqs[r].pc = "end"
            /\ reqs[r].http = ClassifySttError(reqs[r].stt_message).http
            /\ reqs[r].error = ClassifySttError(reqs[r].stt_message).error

Over(q) == q.flow # "none" /\ q.pc = "end"

NoProviderCall(q) ==
    q.calls = [stt |-> 0, lookup |-> 0, llm |-> 0, tts |-> 0]

\* a provider client the flow of q needs was never built
RequiredClientMissing(q) ==
    \/ q.flow \in VoiceFlows \cup {"/tts"} /\ ~config.elevenlabs_client
    \/ q.flow \in ChatFlows /\ ~config.openai_client

\* C16: in every flow, when a provider client the flow requires was never
\* configured (the speech client for /voice-chat, /voice-agent and /tts, the
\* language-model client for the three chat flows, the credential being set or
\* not), the request makes no provider call at all and ends with
\* ProviderUnavailable (503), unless its input is rejected as invalid first.
C16_EagerProviderUnavailable ==
    \A r \in Req : RequiredClientMissing(reqs[r]) =>
        /\ NoProviderCall(reqs[r])
        /\ reqs[r].pc = "end" =>
              \/ reqs[r].http = 503 /\ reqs[r].error = "ProviderUnavailable"
              \/ reqs[r].http = 400 /\ reqs[r].error = "ValidationError"

\* the handler of q, which is over, raised ProviderUnavailable: in its first
\* checks, or in get_ai_response, which every chat request holding a text
\* reaches
RaisedUnavailable(q) ==
    \/ q.flow = "/tts" /\ ~config.elevenlabs_client
    \/ q.flow \in VoiceFlows /\ (~config.elevenlabs_client \/ ~config.openai_key)
    \/ q.flow = "/text-chat" /\ ~config.openai_key
    \/ q.flow \in ChatFlows /\ ~config.openai_client /\ q.text # ""

\* the handler of q, which is over, raised ValidationError
RaisedValidation(q) ==
    /\ ~RaisedUnavailable(q)
    /\ \/ q.flow \in {"/tts", "/text-chat"} /\ q.text = ""
       \/ q.flow = "/clear-conversation" /\ q.session_in = ""

\* C17: on every endpoint a ValidationError (missing or empty text or
\* session_id) reaches the caller as a client error (400) and a
\* ProviderUnavailable as 503; no handler turns either into a generic server
\* error.
C17_ErrorKindPreserved ==
    \A r \in Req : Over(reqs[r]) =>
        /\ RaisedUnavailable(reqs[r]) =>
              reqs[r].http = 503 /\ reqs[r].error = "ProviderUnavailable"
        /\ RaisedValidation(reqs[r]) =>
              reqs[r].http = 400 /\ reqs[r].error = "ValidationError"

\* q holds the persona defaults
PersonaDefaults(q) ==
    /\ q.agent_voice_id = "5kMbtRSEKIkRZSdXxrZg"
    /\ q.agent_name = "Doctor Prados de Paraiso"

\* C18: in the agent flow every outcome of the agent lookup (timeout or other
\* exception, non-200 status, malformed body) takes the request to the history
\* read, and from there to the completion: no request is over after a lookup
\* without having asked for the completion, unless the language-model client
\* is missing.  After a failed lookup the voice handed to the synthesis and the
\* name in the system prompt are the persona defaults.
C18_LookupNeverRequired ==
    /\ [](\A r \in Req :
            reqs[r].flow = "/voice-agent" /\ reqs[r].outcome.lookup # "none" =>
                /\ reqs[r].pc \notin {"audio_read", "lookup_wait"}
                /\ reqs[r].pc = "end" =>
                      reqs[r].calls.llm = 1 \/ reqs[r].error = "ProviderUnavailable"
                /\ reqs[r].outcome.lookup = "error" =>
                      /\ PersonaDefaults(reqs[r])
                      /\ reqs[r].pc = "llm_wait" =>
                            reqs[r].messages[1].content =
                                "Eres Doctor Prados de Paraiso, un asistente legal experto especializado en Prados de Paraiso")
    /\ [][\A r \in Req : reqs[r].pc = "lookup_wait" /\ reqs'[r] # reqs[r] =>
            /\ reqs'[r].pc = "gh_select"
            /\ reqs'[r].outcome.lookup \in {"ok", "error"}
            /\ store' = store]_vars

\* a /voice-agent request whose lookup failed has been answered with audio
\* synthesized in the default voice
C18_Witness ==
    \E r \in Req :
        /\ reqs[r].flow = "/voice-agent"
        /\ reqs[r].pc = "end"
        /\ reqs[r].outcome.lookup = "error"
        /\ reqs[r].http = 200
        /\ reqs[r].outcome.tts = "ok"
        /\ PersonaDefaults(reqs[r])

\* the voice id the body of a lookup answer contains, "" when it has none
FetchedVoice(a) ==
    IF /\ "conversation_config" \in DOMAIN a.body
       /\ "tts" \in DOMAIN a.body.conversation_config
       /\ "voice_id" \in DOMAIN a.body.conversation_config.tts
    THEN a.body.conversation_config.tts.voice_id
    ELSE ""

\* the name the body of a lookup answer contains, "" when it has none
FetchedName(a) == IF "name" \in DOMAIN a.body THEN a.body.name ELSE ""

\* C19: after a lookup answered with status 200 and a well-formed body, the
\* voice is the fetched voice id if the body contains one and the persona
\* default otherwise, and the name is the fetched name if the body contains
\* one and the persona default otherwise, each whatever the other field is.
C19_AgentOverride ==
    \A r \in Req :
        LET q == reqs[r]
            a == q.agent_data
        IN  q.pc = "gh_select" /\ a.status = "200" /\ ~LookupRaises(a) =>
                /\ q.agent_voice_id = IF FetchedVoice(a) # "" THEN FetchedVoice(a)
                                      ELSE "5kMbtRSEKIkRZSdXxrZg"
                /\ q.agent_name = IF FetchedName(a) # "" THEN FetchedName(a)
                                  ELSE "Doctor Prados de Paraiso"

\* q was refused by the validation of its handler
Rejected(q) ==
    /\ Over(q)
    /\ q.http = 400
    /\ \/ q.flow \in {"/text-chat", "/clear-conversation"} /\ q.error = "ValidationError"
       \/ q.flow = "/voice-agent" /\ q.error = "AudioTooShort"
                                  /\ q.audio_len < MinAudioBytes

\* the inputs the validation refuses, once the first checks on the provider
\* have passed
Invalid(q) ==
    \/ q.flow = "/text-chat" /\ q.text = "" /\ config.openai_key
    \/ q.flow = "/clear-conversation" /\ q.session_in = ""
    \/ /\ q.flow = "/voice-agent"
       /\ q.audio_len < MinAudioBytes
       /\ config.elevenlabs_client /\ config.openai_key

\* C20: a request refused by validation (text missing, empty or blank in
\* /text-chat, session_id missing or empty in /clear-conversation, audio
\* under the threshold in /voice-agent) has made no provider call and no store
\* access, and the step that refuses it leaves the store and the open
\* transaction as they were; in particular /clear-conversation without
\* session_id deletes nothing.
C20_RejectionHasNoEffect ==
    /\ [](\A r \in Req :
            /\ Over(reqs[r]) /\ Invalid(reqs[r]) => Rejected(reqs[r])
            /\ Rejected(reqs[r]) =>
                  /\ NoProviderCall(reqs[r])
                  /\ reqs[r].pair = {}
                  /\ reqs[r].db_failed = {})
    /\ [][\A r \in Req : reqs'[r] # reqs[r] /\ Rejected(reqs'[r]) =>
            store' = store /\ tx' = tx /\ nextId' = nextId]_vars

\* a /clear-conversation without session_id has been refused while the store
\* holds the turns of a session
C20_Witness ==
    \E r \in Req :
        /\ reqs[r].flow = "/clear-conversation"
        /\ reqs[r].session_in = ""
        /\ Rejected(reqs[r])
        /\ store # {}

\* the messages q sends are the system prompt, the history h turn by turn,
\* and the new user text
PromptOf(q, h) ==
    LET m == q.messages IN
    /\ Len(m) = Len(h) + 2
    /\ m[1] = [role |-> "system", content |-> SystemPrompt(q)]
    /\ \A i \in 1..Len(h) : m[i + 1] = h[i]
    /\ m[Len(m)] = [role |-> "user", content |-> q.text]
    /\ \A i \in 2..Len(m) : m[i].role \in {"user", "assistant"}

\* C21: the message list sent to the language model is one system message,
\* then the turns of the history the store returned, in the same order and
\* with their roles, none dropped and none added, then one user message with
\* the new text: |h| + 2 messages, the first the only system message.
C21_PromptComposition ==
    /\ [](\A r \in Req : reqs[r].pc = "llm_wait" => PromptOf(reqs[r], reqs[r].history))
    /\ [][\A r \in Req : IsRead(r) /\ reqs'[r].pc = "llm_wait" =>
            \E rows \in SelectHistory(store, reqs[r].session_id, MAX_HISTORY_MESSAGES) :
                PromptOf(reqs'[r], RoleContent(rows))]_vars

\* a request waits for the completion of a prompt that holds a stored pair
\* between the system message and its own text
C21_Witness ==
    \E r \in Req :
        /\ reqs[r].pc = "llm_wait"
        /\ Len(reqs[r].messages) = 4
        /\ reqs[r].messages[2].role = "user"
        /\ reqs[r].messages[3].role = "assistant"

\* q is a chat request that returned a body
Responded(q) == Over(q) /\ q.flow \in ChatFlows /\ q.http = 200

\* q went through every step that comes before the synthesis
AnsweredAndAppended(q) ==
    /\ q.text # ""
    /\ q.outcome.llm = "ok"
    /\ q.ai_response \in Replies
    /\ q.pair # {} \/ "add_to_history" \in q.db_failed

\* C22: a chat request returns a body only once it has its text, its reply
\* and has gone through the append; in the voice and agent flows the body
\* carries the transcript, the reply and an audio that is not null, and a
\* failed synthesis always ends the request with an error; only /text-chat
\* returns a body whose audio_url is null.
C22_NoPartialSuccess ==
    \A r \in Req :
        LET q == reqs[r] IN
        /\ Responded(q) => AnsweredAndAppended(q)
        /\ Responded(q) /\ q.flow \in VoiceFlows =>
              /\ q.outcome.stt = "ok"
              /\ q.outcome.tts = "ok"
              /\ q.audio_url \in {DataUrl(b) : b \in AudioBytes}
        /\ Over(q) /\ q.flow \in VoiceFlows /\ q.outcome.tts = "error" =>
              q.http = 500 /\ q.audio_url = "null"
        /\ Responded(q) /\ q.audio_url = "null" =>
              q.flow = "/text-chat" /\ q.outcome.tts # "ok"
        /\ Over(q) /\ q.flow \in ChatFlows /\ q.http # 200 =>
              q.http \in {400, 500, 503} /\ q.audio_url = "null"

\* a /voice-agent request has failed on its synthesis while a /text-chat
\* request whose synthesis failed has returned its body without audio
C22_Witness ==
    \E r \in Req, o \in Req :
        /\ Over(reqs[r]) /\ reqs[r].flow = "/voice-agent"
        /\ reqs[r].outcome.tts = "error" /\ reqs[r].http = 500
        /\ Responded(reqs[o]) /\ reqs[o].flow = "/text-chat"
        /\ reqs[o].outcome.tts = "error" /\ reqs[o].audio_url = "null"

\* the place of a step in the order of the flows
Rank(step) ==
    CASE step = "stt" -> 1
      [] step = "lookup" -> 2
      [] step = "read" -> 3
      [] step = "llm" -> 4
      [] step = "append" -> 5
      [] step = "tts" -> 6

Done(q, step) == \E i \in 1..Len(q.steps) : q.steps[i] = step

\* the steps q has performed follow the order of the flows
StepsInOrder(q) ==
    \A i \in 1..Len(q.steps), j \in 1..Len(q.steps) :
        i < j => Rank(q.steps[i]) < Rank(q.steps[j])

\* C23: in every flow the steps of a request occur in the order
\* transcription (voice flows only), history read, completion call, history
\* append, synthesis, response; the read follows a transcription that gave a
\* text, the completion call follows the read, the append follows a
\* completion that succeeded, the synthesis follows the append, a body is
\* returned after all of them; /text-chat never calls speech-to-text.
C23_StepOrder ==
    \A r \in Req :
        LET q == reqs[r] IN
        q.flow \in ChatFlows =>
            /\ StepsInOrder(q)
            /\ q.flow \in VoiceFlows /\ q.steps # <<>> => q.steps[1] = "stt"
            /\ q.flow \in VoiceFlows /\ (Done(q, "read") \/ Done(q, "llm")) =>
                  q.outcome.stt = "ok" /\ q.text # ""
            /\ Done(q, "llm") => Done(q, "read")
            /\ Done(q, "append") => Done(q, "llm") /\ q.outcome.llm = "ok"
            /\ Done(q, "tts") => Done(q, "append")
            /\ Responded(q) =>
                  /\ Done(q, "append")
                  /\ q.flow \in VoiceFlows => Done(q, "stt") /\ q.outcome.tts = "ok"
                  /\ config.elevenlabs_client => Done(q, "tts")
            /\ q.flow = "/text-chat" => ~Done(q, "stt") /\ q.calls.stt = 0

\* a /voice-agent request has returned its body after the six steps, in order
C23_Witness ==
    \E r \in Req :
        /\ Responded(reqs[r])
        /\ reqs[r].steps = <<"stt", "lookup", "read", "llm", "append", "tts">>

\* C24: in the agent flow the agent lookup is made at most once per request,
\* right after a transcription that succeeded with a text that is not empty,
\* and before the history read and the completion call; a request refused for
\* a short audio or failed in transcription makes no lookup, nor does a
\* request of another flow.
C24_LookupPosition ==
    \A r \in Req :
        LET q == reqs[r] IN
        /\ q.calls.lookup <= 1
        /\ q.calls.lookup = 1 =>
              /\ q.flow = "/voice-agent"
              /\ Len(q.steps) >= 2 /\ q.steps[1] = "stt" /\ q.steps[2] = "lookup"
              /\ q.outcome.stt = "ok" /\ q.text # ""
              /\ q.audio_len >= MinAudioBytes
        /\ q.calls.lookup = 0 => ~Done(q, "lookup")
        /\ q.flow = "/voice-agent" /\ (Done(q, "read") \/ Done(q, "llm")) =>
              q.calls.lookup = 1 /\ q.outcome.lookup # "none"
        /\ q.flow = "/voice-agent" /\ q.pc \notin {"idle", "audio_read"}
              /\ (q.outcome.stt # "ok" \/ q.text = "") => q.calls.lookup = 0

\* a /voice-agent request has made its one lookup and waits for the
\* completion, while another was refused for a short audio without any call
C24_Witness ==
    \E r \in Req, o \in Req :
        /\ reqs[r].flow = "/voice-agent" /\ reqs[r].pc = "llm_wait"
        /\ reqs[r].steps = <<"stt", "lookup", "read", "llm">>
        /\ reqs[o].flow = "/voice-agent" /\ reqs[o].error = "AudioTooShort"
        /\ reqs[o].audio_len < MinAudioBytes /\ reqs[o].calls.lookup = 0

\* C25: in every flow each provider operation (transcription, agent lookup,
\* completion, synthesis) is invoked at most once per request, whatever its
\* outcome: a provider that failed is not called again by the same request.
C25_NoRetry ==
    \A r \in Req :
        LET q == reqs[r] IN
        /\ \A p \in {"stt", "lookup", "llm", "tts"} :
              /\ q.calls[p] <= 1
              /\ Cardinality({i \in 1..Len(q.steps) : q.steps[i] = p}) = q.calls[p]
              /\ q.outcome[p] = "error" => q.calls[p] = 1
        /\ q.outcome.llm = "error" => q.pc = "end" /\ q.http = 500
        /\ q.outcome.stt = "error" => q.pc = "end"
        /\ q.outcome.tts = "error" => q.pc = "end"

\* a request is over after its one completion call raised
C25_Witness ==
    \E r \in Req :
        /\ Over(reqs[r])
        /\ reqs[r].outcome.llm = "error"
        /\ reqs[r].calls.llm = 1
        /\ reqs[r].http = 500

\* the step in which the add_to_history of task r fails
AppendFails(r) ==
    /\ reqs[r].pc \in AppendPcs
    /\ "add_to_history" \in reqs'[r].db_failed
    /\ "add_to_history" \notin reqs[r].db_failed

\* C26 as stated: add_to_history never raises, and whenever it fails, at the
\* first insert, the second insert, the commit or the prune, the store holds
\* nothing of the call.
C26_FailedAppendStoresNothing ==
    \A r \in Req :
        "add_to_history" \in reqs[r].db_failed =>
            /\ reqs[r].pc \notin AppendPcs
            /\ reqs[r].pair = {}

\* C26: add_to_history never raises to its caller, which goes on as after a
\* success; the step in which it fails changes no row of the store and leaves
\* no transaction of the call open.  A call that fails at the first insert,
\* the second insert or their commit has stored nothing; a call that fails in
\* the prune has already committed its pair.
C26_AppendAbsorbsFailure ==
    /\ [](\A r \in Req : "add_to_history" \in reqs[r].db_failed =>
            reqs[r].pc \notin AppendPcs \cup {"cc_raised"})
    /\ [][\A r \in Req : AppendFails(r) =>
            /\ store' = store
            /\ nextId' = nextId
            /\ tx'.owner # r
            /\ reqs'[r].pc = IF reqs[r].flow \in StoreCallers THEN "ah_done" ELSE "end"
            /\ reqs'[r].pair = reqs[r].pair
            /\ reqs[r].pc \in {"ah_insert_user", "ah_insert_assistant", "ah_commit"} =>
                  reqs'[r].pair = {}
            /\ reqs[r].pc \in {"ah_prune", "ah_commit_prune"} =>
                  Cardinality(reqs'[r].pair) = 2]_vars

\* an add_to_history has returned after failing before its first commit, and
\* no row of the store is from it
C26_Witness ==
    \E r \in Req :
        /\ reqs[r].flow = "add_to_history"
        /\ reqs[r].pc = "ah_done"
        /\ "add_to_history" \in reqs[r].db_failed
        /\ reqs[r].pair = {}
        /\ nextId = 21
        /\ \A x \in store : x.content \in {"q0", "r0"}

\* the step in which the prune of task r is committed
PruneCommits(r) ==
    /\ reqs[r].pc = "ah_commit_prune"
    /\ reqs'[r].pc \notin AppendPcs
    /\ "add_to_history" \notin reqs'[r].db_failed

\* C27: a session holds more than N turns only while a pair inserted into it
\* has not been followed by a committed prune; when an add_to_history on the
\* session completes, the session holds at most N turns again, whatever the
\* excess was, and the turns that went are the oldest.
C27_SelfCorrection ==
    /\ [](\A s \in AllSessions :
            Cardinality(RowsOf(store, s)) > MAX_HISTORY_MESSAGES => dirty[s])
    /\ [][\A r \in Req : PruneCommits(r) =>
            /\ Cardinality(RowsOf(store', reqs[r].session_id)) <= MAX_HISTORY_MESSAGES
            /\ Cardinality(RowsOf(store', reqs[r].session_id)) =
                   Min(Cardinality(RowsOf(store, reqs[r].session_id)), MAX_HISTORY_MESSAGES)
            /\ PruneStepOK]_vars

\* the prune of one add_to_history failed after its pair was committed, the
\* session went up to N + 4 turns with the pair of another call, and the
\* prune of that call has brought it back to N
C27_Witness ==
    \E r \in Req, o \in Req :
        /\ reqs[r].flow = "add_to_history" /\ reqs[o].flow = "add_to_history"
        /\ reqs[r].session_id = "s1" /\ reqs[o].session_id = "s1"
        /\ "add_to_history" \in reqs[r].db_failed /\ Cardinality(reqs[r].pair) = 2
        /\ reqs[o].pc = "ah_done" /\ reqs[o].db_failed = {}
        /\ nextId = 2 * 10 + 5
        /\ Cardinality(RowsOf(store, "s1")) = MAX_HISTORY_MESSAGES

\* the step in which the get_conversation_history of task r returns
ReadReturns(r) ==
    /\ reqs[r].pc = "gh_select"
    /\ reqs'[r].pc # "gh_select"

\* the row of the store with the given id
RowWithId(S, id) == CHOOSE x \in S : x.id = id

\* C28: get_conversation_history never raises and never modifies the store;
\* it returns at most N turns, all of the session asked for, each once, by
\* ascending created_at; it returns the empty sequence for a session without
\* turns and when the store cannot be read.
C28_BoundedTotalRead ==
    [][\A r \in Req : ReadReturns(r) =>
        LET q == reqs'[r]
            ids == q.hist_ids
            sid == reqs[r].session_id
        IN  /\ store' = store /\ tx' = tx /\ nextId' = nextId
            /\ q.pc \in {"gh_done", "llm_wait", "end"}
            /\ q.pc = "end" => q.error = "ProviderUnavailable"
            /\ Len(ids) <= MAX_HISTORY_MESSAGES
            /\ \/ Len(ids) = Min(Cardinality(RowsOf(store, sid)), MAX_HISTORY_MESSAGES)
               \/ "get_conversation_history" \in q.db_failed
               \/ q.pc = "end"
            /\ \A i \in 1..Len(ids) : \E x \in RowsOf(store, sid) : x.id = ids[i]
            /\ \A i \in 1..Len(ids), j \in 1..Len(ids) :
                  i < j => /\ ids[i] # ids[j]
                           /\ RowWithId(store, ids[i]).created_at
                                 <= RowWithId(store, ids[j]).created_at
            /\ q.pc = "gh_done" =>
                  /\ Len(q.history) = Len(ids)
                  /\ \A i \in 1..Len(ids) :
                        q.history[i] = [role |-> RowWithId(store, ids[i]).role,
                                        content |-> RowWithId(store, ids[i]).content]
            /\ RowsOf(store, sid) = {} => ids = <<>> /\ q.history = <<>>
            /\ "get_conversation_history" \in q.db_failed =>
                  ids = <<>> /\ q.history = <<>>]_vars

\* a read has returned N turns of a session that holds N + 2
C28_Witness ==
    \E r \in Req :
        /\ reqs[r].flow = "get_conversation_history" /\ reqs[r].pc = "gh_done"
        /\ reqs[r].db_failed = {}
        /\ Len(reqs[r].history) = MAX_HISTORY_MESSAGES
        /\ Len(reqs[r].hist_ids) = MAX_HISTORY_MESSAGES
        /\ Cardinality(RowsOf(store, reqs[r].session_id)) = MAX_HISTORY_MESSAGES + 2

\* task r takes a step of add_to_history or of clear_conversation
WritesStore(r) ==
    /\ reqs[r].pc \in AppendPcs \cup ClearPcs
    /\ reqs'[r] # reqs[r]

\* C29: every step that inserts, deletes or changes a turn of a session is a
\* step of an add_to_history or of a clear_conversation called for that very
\* session, under any interleaving of the calls; the rows a transaction holds
\* are of its owner's session, and a session may hold its N turns whatever the
\* other sessions hold.
C29_SessionIsolation ==
    /\ [](/\ \A i \in 1..Len(tx.ins) : tx.ins[i].session_id = reqs[tx.owner].session_id
          /\ \A x \in store : x.id \in tx.del => x.session_id = reqs[tx.owner].session_id)
    /\ [][\A s \in AllSessions :
            RowsOf(store', s) # RowsOf(store, s) =>
                \E r \in Req : WritesStore(r) /\ reqs[r].session_id = s]_vars
    /\ [][\A r \in Req : WritesStore(r) =>
            \A s \in AllSessions \ {reqs[r].session_id} :
                RowsOf(store', s) = RowsOf(store, s)]_vars

\* an add_to_history on s2 has inserted and pruned while s1 holds its N
\* turns: the store holds N + 2 turns and none of s1 has gone
C29_Witness ==
    \E r \in Req :
        /\ reqs[r].flow = "add_to_history"
        /\ reqs[r].session_id = "s2"
        /\ reqs[r].pc = "ah_done" /\ reqs[r].db_failed = {}
        /\ Cardinality(RowsOf(store, "s1")) = MAX_HISTORY_MESSAGES
        /\ Cardinality(RowsOf(store, "s2")) = 2
        /\ ~dirty["s1"] /\ ~dirty["s2"]

\* C30: no request holds a session: the history read of a request can run
\* whatever the other requests of the same session are doing, and its append
\* can start whenever no write transaction is open, so that two requests of
\* one session may both read before either appends and append in any order.
C30_NoSessionLock ==
    \A r \in Req :
        /\ reqs[r].pc = "gh_select" => ENABLED ReadHistory(r)
        /\ reqs[r].pc = "ah_insert_user" /\ tx.owner = 0 => ENABLED InsertUser(r)

\* two requests of one session are in flight, the one in slot 1 having
\* arrived first; each was sent to the model with a prompt of two messages,
\* without the turn of the other; both pairs are committed, and the pair of
\* the request that arrived second has the lower ids
C30_Witness ==
    /\ reqs[1].flow \in {"/text-chat", "/voice-agent"}
    /\ reqs[2].flow \in {"/text-chat", "/voice-agent"}
    /\ reqs[1].session_id = reqs[2].session_id
    /\ reqs[1].pc = "ah_prune" /\ reqs[2].pc = "ah_prune"
    /\ Len(reqs[1].messages) = 2 /\ Len(reqs[2].messages) = 2
    /\ reqs[1].db_failed = {} /\ reqs[2].db_failed = {}
    /\ Cardinality(reqs[1].pair) = 2 /\ Cardinality(reqs[2].pair) = 2
    /\ reqs[1].pair \cup reqs[2].pair \subseteq Ids(RowsOf(store, reqs[1].session_id))
    /\ \A i \in reqs[2].pair, j \in reqs[1].pair : i < j

\* the step commits the prune of an add_to_history on session s
PruneCommitsOn(s) ==
    \E r \in Req : /\ reqs[r].pc = "ah_commit_prune"
                    /\ reqs[r].session_id = s
                    /\ reqs'[r].pc # "ah_commit_prune"
                    /\ tx.owner = r /\ tx'.owner = 0

\* the step commits a clear_conversation on session s
ClearCommitsOn(s) ==
    \E r \in Req : /\ reqs[r].pc = "cc_commit"
                    /\ reqs[r].session_id = s
                    /\ reqs'[r].pc # "cc_commit"
                    /\ tx.owner = r /\ tx'.owner = 0

\* C31: a stored turn keeps its session, role, content and time for as long
\* as it is stored, and no id is given twice; a turn leaves the store only in
\* the committed prune of an append on its own session, as one of the oldest
\* turns in excess of N, or in the committed clear of its own session; no
\* other step (a read, the passing of time, a step on another session)
\* takes a turn away.
C31_TurnsImmutable ==
    /\ [](\A x \in store, y \in store : x.id = y.id => x = y)
    /\ [][\A x \in store :
            /\ (\E y \in store' : y.id = x.id) => x \in store'
            /\ x \notin store' =>
                  \/ ClearCommitsOn(x.session_id)
                  \/ /\ PruneCommitsOn(x.session_id)
                     /\ Cardinality(RowsOf(store, x.session_id)) > MAX_HISTORY_MESSAGES
                     /\ Cardinality(RowsOf(store', x.session_id)) = MAX_HISTORY_MESSAGES
                     /\ \A k \in RowsOf(store', x.session_id) :
                           x.created_at <= k.created_at]_vars

\* the oldest turn of s1 has left with a prune, the store has been through a
\* tick, and the turns that remain are as they were written
C31_Witness ==
    /\ clock = 1
    /\ appended["s1"] = 11 /\ ~dirty["s1"]
    /\ \A x \in store : x.id # 1
    /\ \E x \in store : x.id = 3 /\ x.session_id = "s1" /\ x.role = "user" /\ x.content = "q0"
    /\ \E x \in store : x.id = 21 /\ x.session_id = "s1" /\ x.role = "user" /\ x.content = "q1"

\* C32: when the speech client is not configured a /text-chat request never
\* calls the synthesis; if its completion succeeds it returns its body with
\* audio_url null, and if it fails it is for its text, for the language-model
\* client or for the completion, never for the missing speech client.
C32_TextSynthesisGating ==
    \A r \in Req :
        LET q == reqs[r] IN
        q.flow = "/text-chat" /\ ~config.elevenlabs_client =>
            /\ q.calls.tts = 0
            /\ q.outcome.tts = "none"
            /\ Over(q) /\ q.outcome.llm = "ok" => q.http = 200 /\ q.audio_url = "null"
            /\ Over(q) /\ q.http # 200 =>
                  \/ ~config.openai_key /\ q.http = 503
                  \/ q.text = "" /\ q.http = 400
                  \/ ~config.openai_client /\ q.http = 503 /\ Done(q, "read")
                  \/ q.outcome.llm = "error" /\ q.http = 500

\* without a speech client a /text-chat request has stored its pair and
\* returned its reply without audio
C32_Witness ==
    \E r \in Req :
        /\ ~config.elevenlabs_client
        /\ Responded(reqs[r]) /\ reqs[r].flow = "/text-chat"
        /\ reqs[r].steps = <<"read", "llm", "append">>
        /\ reqs[r].audio_url = "null"
        /\ Cardinality(reqs[r].pair) = 2

InFlight(q) == q.pc \notin {"idle", "end"}

EndedResponded(q) == q.http = 200 /\ q.error = ""
EndedRejected(q) == q.http = 400 /\ q.error # ""
EndedFailed(q) == q.http \in {500, 503} /\ q.error # ""

\* C33: when every awaited call returns or raises, a request that was received
\* reaches its end; at its end it has exactly one of a body (200), a rejection
\* (400) or a failure (500, 503), and no step of its handler is left to run.
C33_EveryRequestTerminates ==
    /\ \A r \in Req : InFlight(reqs[r]) ~> Over(reqs[r])
    /\ [](\A r \in Req : Over(reqs[r]) =>
            /\ \/ EndedResponded(reqs[r]) /\ ~EndedRejected(reqs[r]) /\ ~EndedFailed(reqs[r])
               \/ ~EndedResponded(reqs[r]) /\ EndedRejected(reqs[r]) /\ ~EndedFailed(reqs[r])
               \/ ~EndedResponded(reqs[r]) /\ ~EndedRejected(reqs[r]) /\ EndedFailed(reqs[r])
            /\ ~ENABLED Continue(r))
    /\ [][\A r \in Req : Over(reqs[r]) =>
              reqs'[r] = reqs[r] \/ started' = started + 1]_vars

\* two requests that went through the store and the providers are over, one
\* with a body and one with a failure
C33_Witness ==
    /\ Over(reqs[1]) /\ EndedResponded(reqs[1]) /\ reqs[1].flow \in ChatFlows
    /\ Over(reqs[2]) /\ EndedFailed(reqs[2]) /\ reqs[2].calls.llm = 1

\* two add_to_history calls on session s that ran at the same time have both
\* returned, neither with an exception
BothAppended(s) ==
    \A r \in Req :
        /\ reqs[r].flow = "add_to_history" /\ reqs[r].pc = "ah_done"
        /\ reqs[r].session_id = s /\ reqs[r].db_failed = {}

\* C34: once two concurrent add_to_history calls on one session have returned,
\* the session holds at most N turns, a call's pair is missing only if no
\* earlier row of the session is left, and every read returns each user turn
\* immediately followed by the assistant turn of the same call.
C34_ConcurrentAppends ==
    \A s \in Sessions :
        BothAppended(s) =>
            /\ Cardinality(RowsOf(store, s)) <= MAX_HISTORY_MESSAGES
            /\ \A r \in Req : \A i \in reqs[r].pair :
                  (\A x \in store : x.id # i) => \A x \in RowsOf(store, s) : x.id > i
            /\ \A rows \in SelectHistory(store, s, MAX_HISTORY_MESSAGES) :
                  \A i \in 1..Len(rows) :
                      rows[i].role = "user" =>
                          /\ i < Len(rows)
                          /\ rows[i + 1].role = "assistant"
                          /\ rows[i + 1].id = rows[i].id + 1

\* the step in which the two INSERTs of task r are committed
PairCommits(r) ==
    /\ reqs[r].pc = "ah_commit" /\ reqs'[r].pc = "ah_prune"
    /\ tx.owner = r /\ Len(tx.ins) = 2
    /\ tx.ins[1].role = "user" /\ tx.ins[2].role = "assistant"
    /\ tx.ins[2].id = tx.ins[1].id + 1
    /\ tx.ins[1].session_id = reqs[r].session_id
    /\ tx.ins[2].session_id = reqs[r].session_id
    /\ store' \ store = {tx.ins[1], tx.ins[2]}

\* C35: the rows add_to_history has inserted and not committed are in no
\* store state a read can see; rows enter the store only as the whole pair of
\* one call, at its commit; and a call that fails after its user insert
\* (at the assistant insert or at the commit) leaves the store as it was and
\* its inserts discarded.
C35_PairAtomicity ==
    /\ [](/\ \A i \in 1..Len(tx.ins) : \A x \in store : x.id < tx.ins[i].id
          /\ \A x \in store : x.id < nextId)
    /\ [][/\ store' \ store # {} => \E r \in Req : PairCommits(r)
          /\ \A r \in Req :
                AppendFails(r) /\ reqs[r].pc \in {"ah_insert_assistant", "ah_commit"} =>
                    /\ tx.owner = r /\ Len(tx.ins) >= 1 /\ tx.ins[1].role = "user"
                    /\ store' = store
                    /\ tx' = NoTx
                    /\ nextId' = nextId
                    /\ reqs'[r].pair = {}]_vars

\* a read that ran while add_to_history held its two rows uncommitted has
\* returned without them
C35_Witness ==
    \E r \in Req, o \in Req :
        /\ reqs[r].flow = "add_to_history" /\ reqs[r].pc = "ah_commit"
        /\ tx.owner = r /\ Len(tx.ins) = 2
        /\ reqs[o].flow = "get_conversation_history" /\ reqs[o].pc = "gh_done"
        /\ reqs[o].session_id = reqs[r].session_id
        /\ "get_conversation_history" \notin reqs[o].db_failed
        /\ Len(reqs[o].history) = Cardinality(RowsOf(store, reqs[r].session_id))
        /\ \A i \in 1..Len(reqs[o].history) : reqs[o].history[i].content # "q1"

\* the rows of the store that task r inserted
PairRows(q) == {x \in store : x.id \in q.pair}

\* C36: a request inserts rows at most once, as one pair: the rows that enter
\* the store in a step are the user text (or transcript) of one request and
\* the reply its completion returned, both under the session the request
\* resolved before its first await, which it keeps to its end.
C36_OnePairPerRequest ==
    /\ [](/\ nextId - 1 <= 2 * started
          /\ \A r \in Req : Cardinality(reqs[r].pair) \in {0, 2})
    /\ [][/\ store' \ store # {} =>
                \E r \in Req :
                    /\ PairCommits(r)
                    /\ reqs[r].flow \in ChatFlows
                    /\ reqs[r].pair = {}
                    /\ reqs[r].outcome.llm = "ok"
                    /\ reqs[r].steps = <<"read", "llm">> \/ reqs[r].steps = <<"stt", "lookup", "read", "llm">>
                    /\ tx.ins[1].content = reqs[r].text
                    /\ tx.ins[2].content = reqs[r].ai_response
                    /\ reqs[r].ai_response \in Replies
                    /\ reqs[r].session_in # "" => reqs[r].session_id = reqs[r].session_in
                    /\ reqs[r].session_in = "" => reqs[r].session_id \notin Sessions
          /\ \A r \in Req :
                InFlight(reqs[r]) /\ reqs[r].session_id # "" /\ started' = started =>
                    /\ reqs'[r].session_id = reqs[r].session_id
                    /\ reqs[r].pair # {} => reqs'[r].pair = reqs[r].pair]_vars

\* a /text-chat without session_id is over: the store holds its pair, the
\* stripped text and the reply, under the session it minted, and nothing else
C36_Witness ==
    \E r \in Req :
        /\ Responded(reqs[r]) /\ reqs[r].flow = "/text-chat"
        /\ reqs[r].session_in = "" /\ reqs[r].session_id \notin Sessions
        /\ Cardinality(store) = 2
        /\ PairRows(reqs[r]) = store
        /\ \A x \in store : /\ x.session_id = reqs[r].session_id
                              /\ x.content = IF x.role = "user" THEN "q2" ELSE "r2"

\* the step in which the clear_conversation of task r on session s commits
ClearSucceeds(r, s) ==
    /\ reqs[r].pc = "cc_commit" /\ reqs[r].session_id = s
    /\ reqs'[r].pc # "cc_commit"
    /\ "clear_conversation" \notin reqs'[r].db_failed

\* C37: when clear_conversation(s) commits, every row of s stored so far is
\* gone, whatever other tasks are doing; ids are never given out again, so the
\* rows that enter the store later are new ones, and every read returns rows
\* that are in the store when it runs.  A task that was already running can
\* insert its pair after the clear.
C37_ClearAgainstInFlight ==
    /\ [](\A x \in store : x.id < nextId)
    /\ [][/\ \A s \in AllSessions : \A r \in Req :
                ClearSucceeds(r, s) =>
                    /\ RowsOf(store', s) = {}
                    /\ \A x \in store' : x.id < nextId
                    /\ \A x \in store : x.session_id # s => x \in store'
          /\ nextId' >= nextId
          /\ \A x \in store' \ store : x.id >= nextId
          /\ \A r \in Req :
                IsRead(r) =>
                    \/ reqs'[r].pc = "end"
                    \/ \A i \in 1..Len(reqs'[r].hist_ids) :
                          \E x \in RowsOf(store, reqs[r].session_id) :
                              x.id = reqs'[r].hist_ids[i]]_vars

\* session s1 held twenty turns; a clear_conversation and an add_to_history
\* ran on it at the same time, the clear has returned and the session holds
\* the pair of the add_to_history alone
C37_Witness ==
    \E r \in Req, o \in Req :
        /\ reqs[r].flow = "clear_conversation" /\ reqs[r].pc = "cc_done"
        /\ reqs[r].session_id = "s1"
        /\ reqs[o].flow = "add_to_history" /\ reqs[o].pc = "ah_done"
        /\ reqs[o].session_id = "s1"
        /\ nextId = 2 * 10 + 3
        /\ started = 2
        /\ RowsOf(store, "s1") = PairRows(reqs[o])
        /\ Cardinality(RowsOf(store, "s1")) = 2

\* C38: in the body of every /text-chat response format is "mp3" exactly when
\* audio_url is not null, and audio_url is not null exactly when the speech
\* client is configured and the synthesis of this request succeeded; it is
\* then the data URL of the audio.
C38_TextResponseConsistency ==
    \A r \in Req :
        LET q == reqs[r]
            body == TextChatBody(q)
        IN  Responded(q) /\ q.flow = "/text-chat" =>
                /\ body.format \in {"mp3", "null"}
                /\ body.format = "mp3" <=> body.audio_url # "null"
                /\ body.audio_url # "null" <=>
                      /\ config.elevenlabs_client
                      /\ q.calls.tts = 1
                      /\ q.outcome.tts = "ok"
                /\ body.audio_url # "null" => \E b \in AudioBytes : body.audio_url = DataUrl(b)

\* with the speech client configured, one /text-chat response carries its
\* audio as "mp3" and another, whose synthesis failed, carries neither
C38_Witness ==
    /\ config.elevenlabs_client
    /\ \A r \in Req : Responded(reqs[r]) /\ reqs[r].flow = "/text-chat"
    /\ \E r \in Req : /\ reqs[r].outcome.tts = "ok"
                       /\ TextChatBody(reqs[r]).format = "mp3"
                       /\ TextChatBody(reqs[r]).audio_url = "data:audio/mpeg;base64,QVVESU8="
    /\ \E r \in Req : /\ reqs[r].outcome.tts = "error"
                       /\ TextChatBody(reqs[r]).format = "null"
                       /\ TextChatBody(reqs[r]).audio_url = "null"

====
